---- MODULE Spec2Model ----
(***************************************************************************)
(* A model of dde-validator's DAGValidator                                 *)
(* (src/dde-validator/validators/dag_validator.py).                        *)
(*                                                                         *)
(* One DAGValidator instance is modelled: its two accumulator fields       *)
(* self.errors / self.warnings are references to list objects on a heap,   *)
(* and every call of validate_syntax / validate_structure is one action    *)
(* (the code is synchronous).  A call rebinds the two fields to fresh      *)
(* lists, appends the findings of its checks and returns a dict that       *)
(* holds the two list objects themselves (not copies).                     *)
(*                                                                         *)
(* Spec          calls made one after the other on one instance;           *)
(* ThreadsSpec   two callers inside their calls at the same time, on one   *)
(*               instance or on two, statement by statement;               *)
(* EndpointSpec  the /validate/dag handler of app.py on one request;       *)
(* SearchSpec    the depth-first cycle search of one task list, call by    *)
(*               call and neighbour by neighbour.                          *)
(*                                                                         *)
(* Python strings that the code inspects character by character (ids,      *)
(* source text) are sequences of one-character strings; strings that the   *)
(* code only compares as a whole are TLA+ strings.                         *)
(***************************************************************************)
EXTENDS Integers, Sequences, FiniteSets, TLC

VARIABLES
    dag_spec,       \* the specification object the caller holds
    dag_code,       \* the source text the caller holds, with ast.parse's outcome on it
    heap,           \* the list objects: heap[r] is the content of list r
    self_errors,    \* self.errors   (a reference into heap)
    self_warnings,  \* self.warnings (a reference into heap)
    returned,       \* the calls made so far, each with the dict it returned
    threads,        \* the callers that run at the same time, each inside its call
    request,        \* the JSON body of a request to /validate/dag
    response,       \* what the endpoint answered
    search          \* the cycle search of _has_circular_dependencies, step by step

vars ==
    <<dag_spec, dag_code, heap, self_errors, self_warnings, returned, threads,
      request, response, search>>

----------------------------------------------------------------------------
(* Bounds of the model *)

MaxTasks == 2       \* longest task list of the task-graph family
MaxEdges == 2       \* most dependency entries in one task list
MaxIdLen == 2       \* longest enumerated dag_id (the over-long ids are separate)
MaxTextLen == 2     \* longest source text
MaxNodes == 2       \* most nodes of a parsed tree
MaxItems == 2       \* longest connections / variables list
MaxCalls == 2       \* calls made on the one instance

----------------------------------------------------------------------------
(* Values *)

RECURSIVE Repeat(_, _)
Repeat(c, n) == IF n = 0 THEN <<>> ELSE <<c>> \o Repeat(c, n - 1)

SeqsUpTo(S, n) == UNION {[1..m -> S] : m \in 0..n}

\* A dict entry or argument: the key is absent, it is None, or it has a value.
Absent == [k |-> "absent", v |-> <<>>]
Null == [k |-> "null", v |-> <<>>]
Str(s) == [k |-> "str", v |-> s]
List(l) == [k |-> "list", v |-> l]

\* A string the code only compares as a whole (operator_type, schedule,
\* start_date, description): its value is a TLA+ string.
AbsentName == [k |-> "absent", v |-> ""]
NullName == [k |-> "null", v |-> ""]
Name(s) == [k |-> "str", v |-> s]

\* dict.get(key): None for an absent key.
Get(entry) == IF entry.k = "absent" THEN Null ELSE entry
GetName(entry) == IF entry.k = "absent" THEN NullName ELSE entry

\* dict.get(key, []): the default only for an absent key.
GetOrEmptyList(entry) == IF entry.k = "absent" THEN List(<<>>) ELSE entry

\* Python truthiness of a str / list / None value.
Truthy(entry) == entry.k \in {"str", "list"} /\ entry.v # <<>>

TruthyName(entry) == entry.k = "str" /\ entry.v # ""

\* A finding dict.  Keys a finding does not carry hold NoIndex / NoLine /
\* "absent"; the f-string arguments of the message are subject and object.
NoIndex == -1
NoLine == -1

Finding(type, field, index, line, message, subject, object, details) ==
    [type |-> type, field |-> field, index |-> index, line |-> line,
     message |-> message, subject |-> subject, object |-> object,
     details |-> details]

NoField == "<absent>"

Field(type, field, index, message, subject, object) ==
    Finding(type, field, index, NoLine, message, subject, object, "absent")

\* The two accumulators during a call, and the appends in the order the call
\* made them.
Acc(e, w) == [errors |-> e, warnings |-> w, log |-> <<>>]

AddError(acc, f) ==
    [acc EXCEPT !.errors = Append(@, f),
                !.log = Append(@, [list |-> "errors", finding |-> f])]

AddWarning(acc, f) ==
    [acc EXCEPT !.warnings = Append(@, f),
                !.log = Append(@, [list |-> "warnings", finding |-> f])]

----------------------------------------------------------------------------
(* Character-level helpers *)

Whitespace == {" ", "\t", "\n"}
\* Characters of [a-zA-Z0-9_-]: the letters the ids of the model are made of,
\* a digit, the underscore and the hyphen.
IdChars == {"a", "b", "c", "d", "z", "A", "0", "_", "-"}

\* str.lower() on the modelled alphabet.
LowerChar(c) == IF c = "A" THEN "a" ELSE c
Lower(s) == [i \in 1..Len(s) |-> LowerChar(s[i])]

\* str.strip(): drop leading and trailing whitespace.
RECURSIVE LStrip(_)
LStrip(s) == IF s # <<>> /\ Head(s) \in Whitespace THEN LStrip(Tail(s)) ELSE s

RECURSIVE RStrip(_)
RStrip(s) ==
    IF s # <<>> /\ s[Len(s)] \in Whitespace
    THEN RStrip(SubSeq(s, 1, Len(s) - 1))
    ELSE s

Strip(s) == RStrip(LStrip(s))

----------------------------------------------------------------------------
(* Class attributes *)

VALID_OPERATORS ==
    {"BashOperator", "PythonOperator", "EmailOperator", "SimpleHttpOperator",
     "PostgresOperator", "MySqlOperator", "SqliteOperator", "MsSqlOperator",
     "OracleOperator", "S3FileTransformOperator", "S3ToRedshiftOperator",
     "RedshiftToS3Operator", "BigQueryOperator", "BigQueryCreateEmptyTableOperator",
     "GCSToGoogleDriveOperator", "SnowflakeOperator", "SparkSubmitOperator",
     "DatabricksSubmitRunOperator", "KubernetesPodOperator", "DockerOperator",
     "EmptyOperator", "BranchPythonOperator", "ShortCircuitOperator",
     "TriggerDagRunOperator", "ExternalTaskSensor", "HttpSensor",
     "S3KeySensor", "SqlSensor", "TimeDeltaSensor"}

\* The string members of VALID_SCHEDULES (its None member is the k = "null" case).
VALID_SCHEDULES ==
    {"@once", "@hourly", "@daily", "@weekly", "@monthly", "@yearly",
     "@annually", "None", "null"}

----------------------------------------------------------------------------
(* Pattern and date parsing *)

\* re.match(r'^[a-zA-Z0-9_-]+$', s): one or more id characters up to the end
\* of the string, where Python's $ also matches just before a final newline.
IdPatternMatches(s) ==
    \E n \in 1..Len(s) :
        /\ \A i \in 1..n : s[i] \in IdChars
        /\ \/ n = Len(s)
           \/ n = Len(s) - 1 /\ s[Len(s)] = "\n"

\* re.match(cron_pattern, schedule.strip()) on the schedules of the model.
CronPatternMatches(schedule) ==
    schedule \in {"@daily", "@reboot", "@every 5m", "0 0 * * *"}

\* datetime.fromisoformat(start_date) succeeds, on the dates of the model.
FromIsoFormatParses(start_date) ==
    start_date \in {"2024-01-01", "2024-01-01T10:00:00", "2024-01-01 10:00"}

----------------------------------------------------------------------------
(* validate_structure: the sub-checks, each from accumulators to accumulators *)

\* Variant of RequiredFieldCheck: only `field not in spec`.
RequiredFieldCheckAbsentOnly(acc, spec, field) ==
    IF spec[field].k = "absent"
    THEN IF field = "schedule"
         THEN AddWarning(acc, Field("field", field, NoIndex,
                  "Schedule is None - DAG will not run automatically", <<>>, <<>>))
         ELSE AddError(acc, Field("field", field, NoIndex,
                  "Required field is missing or null", <<>>, <<>>))
    ELSE acc

RequiredFieldCheck(acc, spec, field) ==
    IF spec[field].k \in {"absent", "null"}
    THEN IF field = "schedule"
         THEN AddWarning(acc, Field("field", field, NoIndex,
                  "Schedule is None - DAG will not run automatically", <<>>, <<>>))
         ELSE AddError(acc, Field("field", field, NoIndex,
                  "Required field is missing or null", <<>>, <<>>))
    ELSE acc

_validate_required_fields(acc, spec) ==
    LET a1 == RequiredFieldCheck(acc, spec, "dag_id")
        a2 == RequiredFieldCheck(a1, spec, "description")
        a3 == RequiredFieldCheck(a2, spec, "schedule")
    IN  RequiredFieldCheck(a3, spec, "tasks")

MaxDagIdLength == 100

_validate_dag_id(acc, dag_id) ==
    IF ~Truthy(dag_id)
    THEN acc
    ELSE LET id == dag_id.v
             a1 == IF ~IdPatternMatches(id)
                   THEN AddError(acc, Field("format", "dag_id", NoIndex,
                            "DAG ID contains invalid characters", id, <<>>))
                   ELSE acc
             a2 == IF Len(id) > MaxDagIdLength
                   THEN AddError(a1, Field("format", "dag_id", NoIndex,
                            "DAG ID is too long", id, <<>>))
                   ELSE a1
         IN  IF id # Lower(id)
             THEN AddWarning(a2, Field("format", "dag_id", NoIndex,
                      "DAG ID should be lowercase for consistency", id, Lower(id)))
             ELSE a2

_validate_schedule(acc, schedule) ==
    IF schedule.k = "null" \/ schedule.v \in {"None", "null"}
    THEN acc
    ELSE IF schedule.v \in VALID_SCHEDULES
    THEN acc
    ELSE IF ~CronPatternMatches(schedule.v)
    THEN AddWarning(acc, Field("format", "schedule", NoIndex,
             "Schedule may not be a valid cron expression or preset", <<>>, <<>>))
    ELSE acc

_validate_start_date(acc, start_date) ==
    IF ~TruthyName(start_date)
    THEN AddWarning(acc, Field("field", "start_date", NoIndex,
             "No start_date specified. Will use default.", <<>>, <<>>))
    ELSE IF ~FromIsoFormatParses(start_date.v)
    THEN AddError(acc, Field("format", "start_date", NoIndex,
             "Invalid date format. Use YYYY-MM-DD.", <<>>, <<>>))
    ELSE acc

\* The checks of _validate_tasks on one task that carries a task_id, at
\* Python index i; task_ids is the running set.
\* Variant of DuplicateTaskIdCheck: the running set is never consulted.
DuplicateTaskIdCheckOff(acc, task_id, task_ids) == acc

DuplicateTaskIdCheck(acc, task_id, task_ids) ==
    IF task_id \in task_ids
    THEN AddError(acc, Field("duplicate", "task_id", NoIndex,
             "Duplicate task_id", task_id, <<>>))
    ELSE acc

TaskIdFormatCheck(acc, task_id, i) ==
    IF ~IdPatternMatches(task_id)
    THEN AddError(acc, Field("format", "tasks[i].task_id", i,
             "Task ID contains invalid characters", task_id, <<>>))
    ELSE acc

OperatorTypeCheck(acc, task_id, operator_type, i) ==
    IF ~TruthyName(operator_type)
    THEN AddError(acc, Field("field", "tasks[i].operator_type", i,
             "Task is missing operator_type", task_id, <<>>))
    ELSE IF operator_type.v \notin VALID_OPERATORS
    THEN AddWarning(acc, Field("operator", "tasks[i].operator_type", i,
             "Unknown operator type. May not be supported.", <<>>, <<>>))
    ELSE acc

\* params = task.get('params', {}): only the 'params' key is read.
ParamsCheck(acc, task, operator_type, i) ==
    IF TruthyName(operator_type) /\ task.params # "nonempty"
    THEN AddWarning(acc, Field("params", "tasks[i].params", i,
             "Task has no parameters. Operator may require configuration.",
             task.task_id.v, <<>>))
    ELSE acc

TaskCheck(acc, task, i, task_ids) ==
    LET task_id == task.task_id.v
        operator_type == GetName(task.operator_type)
        a1 == DuplicateTaskIdCheck(acc, task_id, task_ids)
        a2 == TaskIdFormatCheck(a1, task_id, i)
        a3 == OperatorTypeCheck(a2, task_id, operator_type, i)
    IN  ParamsCheck(a3, task, operator_type, i)

RECURSIVE TasksLoop(_, _, _, _)
TasksLoop(acc, tasks, n, task_ids) ==
    IF n > Len(tasks)
    THEN acc
    ELSE LET task == tasks[n]
         IN  IF task.task_id.k = "absent"
             THEN TasksLoop(
                      AddError(acc, Field("field", "tasks[i].task_id", n - 1,
                          "Task at index is missing task_id", <<>>, <<>>)),
                      tasks, n + 1, task_ids)
             ELSE TasksLoop(TaskCheck(acc, task, n - 1, task_ids),
                      tasks, n + 1, task_ids \cup {task.task_id.v})

\* Variant of _validate_tasks: no error for an empty task list.
_validate_tasks_unguarded(acc, tasks) ==
    IF ~Truthy(tasks) THEN acc ELSE TasksLoop(acc, tasks.v, 1, {})

_validate_tasks(acc, tasks) ==
    IF ~Truthy(tasks)
    THEN AddError(acc, Field("structure", "tasks", NoIndex,
             "DAG must contain at least one task", <<>>, <<>>))
    ELSE TasksLoop(acc, tasks.v, 1, {})

RECURSIVE ConnectionsLoop(_, _, _, _)
ConnectionsLoop(acc, connections, n, conn_ids) ==
    IF n > Len(connections)
    THEN acc
    ELSE LET conn == connections[n]
             conn_id == conn.conn_id.v
         IN  IF conn.conn_id.k = "absent"
             THEN ConnectionsLoop(
                      AddError(acc, Field("field", "connections[i].conn_id", n - 1,
                          "Connection at index is missing conn_id", <<>>, <<>>)),
                      connections, n + 1, conn_ids)
             ELSE LET a1 == IF conn_id \in conn_ids
                            THEN AddError(acc, Field("duplicate", "conn_id", NoIndex,
                                     "Duplicate connection ID", conn_id, <<>>))
                            ELSE acc
                      a2 == IF ~conn.has_conn_type
                            THEN AddError(a1, Field("field", "connections[i].conn_type",
                                     n - 1, "Connection is missing conn_type",
                                     conn_id, <<>>))
                            ELSE a1
                  IN  ConnectionsLoop(a2, connections, n + 1, conn_ids \cup {conn_id})

_validate_connections(acc, connections) ==
    ConnectionsLoop(acc, connections.v, 1, {})

RECURSIVE VariablesLoop(_, _, _, _)
VariablesLoop(acc, variables, n, var_keys) ==
    IF n > Len(variables)
    THEN acc
    ELSE LET var == variables[n]
             key == var.key.v
         IN  IF var.key.k = "absent"
             THEN VariablesLoop(
                      AddError(acc, Field("field", "variables[i].key", n - 1,
                          "Variable at index is missing key", <<>>, <<>>)),
                      variables, n + 1, var_keys)
             ELSE VariablesLoop(
                      IF key \in var_keys
                      THEN AddWarning(acc, Field("duplicate", "variable_key", NoIndex,
                               "Duplicate variable key", key, <<>>))
                      ELSE acc,
                      variables, n + 1, var_keys \cup {key})

\* Variant of _validate_variables: a repeated key is an error.
_validate_variables_strict(acc, variables) ==
    LET found == VariablesLoop(Acc(<<>>, <<>>), variables.v, 1, {})
    IN  [acc EXCEPT !.errors = @ \o found.errors \o found.warnings]

_validate_variables(acc, variables) ==
    VariablesLoop(acc, variables.v, 1, {})

----------------------------------------------------------------------------
(* Dependencies and the cycle search *)

Dependencies(task) == GetOrEmptyList(task.dependencies).v

\* Variant of TaskIdSet: the last task is left out.
TaskIdSetButLast(tasks) ==
    {tasks[n].task_id.v :
        n \in {m \in 1..(Len(tasks) - 1) : tasks[m].task_id.k # "absent"}}

\* {task['task_id'] for task in tasks if 'task_id' in task}
TaskIdSet(tasks) ==
    {tasks[n].task_id.v : n \in {m \in 1..Len(tasks) : tasks[m].task_id.k # "absent"}}

\* The inner loop of _validate_dependencies over one task's dependency list.
RECURSIVE DepsLoop(_, _, _, _, _)
DepsLoop(acc, task_id, dependencies, j, task_ids) ==
    IF j > Len(dependencies)
    THEN acc
    ELSE LET dep == dependencies[j]
             a1 == IF dep \notin task_ids
                   THEN AddError(acc, Field("dependency", "dependencies", NoIndex,
                            "Task depends on non-existent task", task_id, dep))
                   ELSE acc
             a2 == IF dep = task_id
                   THEN AddError(a1, Field("dependency", "dependencies", NoIndex,
                            "Task cannot depend on itself", task_id, <<>>))
                   ELSE a1
         IN  DepsLoop(a2, task_id, dependencies, j + 1, task_ids)

\* The outer loop of _validate_dependencies.
RECURSIVE DependencyTasksLoop(_, _, _, _)
DependencyTasksLoop(acc, tasks, n, task_ids) ==
    IF n > Len(tasks)
    THEN acc
    ELSE IF tasks[n].task_id.k = "absent"
    THEN DependencyTasksLoop(acc, tasks, n + 1, task_ids)
    ELSE DependencyTasksLoop(
             DepsLoop(acc, tasks[n].task_id.v, Dependencies(tasks[n]), 1, task_ids),
             tasks, n + 1, task_ids)

\* The adjacency dict: keys in insertion order, a later task with the same
\* task_id replaces the value stored by an earlier one.
RECURSIVE BuildGraph(_, _, _)
BuildGraph(graph, tasks, n) ==
    IF n > Len(tasks)
    THEN graph
    ELSE IF tasks[n].task_id.k = "absent"
    THEN BuildGraph(graph, tasks, n + 1)
    ELSE LET task_id == tasks[n].task_id.v
             keys == IF \E i \in 1..Len(graph.keys) : graph.keys[i] = task_id
                     THEN graph.keys
                     ELSE Append(graph.keys, task_id)
             adj == [id \in DOMAIN graph.adj \cup {task_id} |->
                        IF id = task_id THEN Dependencies(tasks[n]) ELSE graph.adj[id]]
         IN  BuildGraph([keys |-> keys, adj |-> adj], tasks, n + 1)

EmptyGraph == [keys |-> <<>>, adj |-> [id \in {} |-> <<>>]]

\* graph.get(node, [])
Neighbors(graph, node) ==
    IF node \in DOMAIN graph.adj THEN graph.adj[node] ELSE <<>>

\* has_cycle(node) and its loop over the neighbours, on the search state
\* st = [found, visited, rec_stack]; st.found is the value returned.
RECURSIVE has_cycle(_, _, _)
RECURSIVE NeighborsLoop(_, _, _, _)

\* Variant of has_cycle: without rec_stack.remove(node).
has_cycle_keeps_stack(graph, node, st) ==
    NeighborsLoop(graph, node, 1,
                  [found |-> FALSE,
                   visited |-> st.visited \cup {node},
                   rec_stack |-> st.rec_stack \cup {node}])

has_cycle(graph, node, st) ==
    LET entered == [found |-> FALSE,
                    visited |-> st.visited \cup {node},
                    rec_stack |-> st.rec_stack \cup {node}]
        after == NeighborsLoop(graph, node, 1, entered)
    IN  IF after.found
        THEN after
        ELSE [after EXCEPT !.rec_stack = @ \ {node}]

NeighborsLoop(graph, node, j, st) ==
    IF j > Len(Neighbors(graph, node))
    THEN st
    ELSE LET neighbor == Neighbors(graph, node)[j]
         IN  IF neighbor \notin st.visited
             THEN LET sub == has_cycle(graph, neighbor, st)
                  IN  IF sub.found
                      THEN sub
                      ELSE NeighborsLoop(graph, node, j + 1, sub)
             ELSE IF neighbor \in st.rec_stack
             THEN [st EXCEPT !.found = TRUE]
             ELSE NeighborsLoop(graph, node, j + 1, st)

\* for node in graph: if node not in visited: if has_cycle(node): return True
RECURSIVE RootsLoop(_, _, _)
RootsLoop(graph, n, st) ==
    IF n > Len(graph.keys)
    THEN st
    ELSE IF graph.keys[n] \in st.visited
    THEN RootsLoop(graph, n + 1, st)
    ELSE LET sub == has_cycle(graph, graph.keys[n], st)
         IN  IF sub.found THEN sub ELSE RootsLoop(graph, n + 1, sub)

_has_circular_dependencies(tasks) ==
    RootsLoop(BuildGraph(EmptyGraph, tasks, 1), 1,
              [found |-> FALSE, visited |-> {}, rec_stack |-> {}]).found

CircularError ==
    Field("dependency", "dependencies", NoIndex,
          "Circular dependency detected in task graph", <<>>, <<>>)

_validate_dependencies(acc, tasks) ==
    IF ~Truthy(tasks)
    THEN acc
    ELSE LET a1 == DependencyTasksLoop(acc, tasks.v, 1, TaskIdSet(tasks.v))
         IN  IF _has_circular_dependencies(tasks.v)
             THEN AddError(a1, CircularError)
             ELSE a1

----------------------------------------------------------------------------
(* The two entry points, from the accumulators after the reset *)

\* Variant of SpecIsFalsy: `dag_spec is None`.
SpecIsNone(spec) == spec.is_none

\* `not dag_spec`: None or a dict without any key.
SpecIsFalsy(spec) ==
    \/ spec.is_none
    \/ /\ ~spec.other_keys
       /\ \A f \in {"dag_id", "description", "schedule", "start_date", "tasks",
                    "connections", "variables"} : spec[f].k = "absent"

\* Variant of StructureChecks: the dependencies are checked right after the
\* tasks, before the connections and the variables.
StructureChecksDependenciesEarly(acc, spec) ==
    IF SpecIsFalsy(spec)
    THEN AddError(acc, Field("structure", "root", NoIndex,
             "DAG specification is empty", <<>>, <<>>))
    ELSE LET a1 == _validate_required_fields(acc, spec)
             a2 == _validate_dag_id(a1, Get(spec.dag_id))
             a3 == _validate_schedule(a2, GetName(spec.schedule))
             a4 == _validate_start_date(a3, GetName(spec.start_date))
             a5 == _validate_tasks(a4, GetOrEmptyList(spec.tasks))
             a6 == _validate_dependencies(a5, GetOrEmptyList(spec.tasks))
             a7 == _validate_connections(a6, GetOrEmptyList(spec.connections))
         IN  _validate_variables(a7, GetOrEmptyList(spec.variables))

StructureChecks(acc, spec) ==
    IF SpecIsFalsy(spec)
    THEN AddError(acc, Field("structure", "root", NoIndex,
             "DAG specification is empty", <<>>, <<>>))
    ELSE LET a1 == _validate_required_fields(acc, spec)
             a2 == _validate_dag_id(a1, Get(spec.dag_id))
             a3 == _validate_schedule(a2, GetName(spec.schedule))
             a4 == _validate_start_date(a3, GetName(spec.start_date))
             a5 == _validate_tasks(a4, GetOrEmptyList(spec.tasks))
             a6 == _validate_connections(a5, GetOrEmptyList(spec.connections))
             a7 == _validate_variables(a6, GetOrEmptyList(spec.variables))
         IN  _validate_dependencies(a7, GetOrEmptyList(spec.tasks))

----------------------------------------------------------------------------
(* validate_syntax *)

\* ast.parse is Python's own: its outcome on a text is part of the input.
\*   kind "ok"          the tree, as the sequence of nodes ast.walk yields
\*   kind "SyntaxError" e.lineno (NoLine for None) and whether e.text is set
\*   kind "Exception"   any other exception
ParseOk(tree) == [kind |-> "ok", tree |-> tree, lineno |-> NoLine, has_text |-> FALSE]
ParseSyntaxError(lineno, has_text) ==
    [kind |-> "SyntaxError", tree |-> <<>>, lineno |-> lineno, has_text |-> has_text]
ParseException == [kind |-> "Exception", tree |-> <<>>, lineno |-> NoLine, has_text |-> FALSE]

\* The nodes the scan looks at.  airflow: node.module is set and contains
\* 'airflow'; names_DAG: some alias is named DAG; func_is_name: node.func is
\* an ast.Name, whose id is id.
ImportFromNode(airflow, names_DAG) ==
    [node |-> "ImportFrom", airflow |-> airflow, names_DAG |-> names_DAG,
     func_is_name |-> FALSE, id |-> ""]
ImportNode(airflow) ==
    [node |-> "Import", airflow |-> airflow, names_DAG |-> FALSE,
     func_is_name |-> FALSE, id |-> ""]
CallNode(func_is_name, id) ==
    [node |-> "Call", airflow |-> FALSE, names_DAG |-> FALSE,
     func_is_name |-> func_is_name, id |-> id]

\* any(op in node.func.id for op in ['Operator', 'Sensor']), on the names of the model.
NamesOperatorOrSensor(id) == id \in {"BashOperator", "S3KeySensor"}

StructureWarning(message) ==
    Finding("structure", NoField, NoIndex, NoLine, message, <<>>, <<>>, "absent")

_check_dag_structure(acc, tree) ==
    LET Nodes == {tree[i] : i \in 1..Len(tree)}
        has_dag_import ==
            \E n \in Nodes : n.node = "ImportFrom" /\ n.airflow
        has_dag_definition ==
            \/ \E n \in Nodes : n.node = "ImportFrom" /\ n.airflow /\ n.names_DAG
            \/ \E n \in Nodes : n.node = "Call" /\ n.func_is_name /\ n.id = "DAG"
        has_tasks ==
            \E n \in Nodes :
                n.node = "Call" /\ n.func_is_name /\ NamesOperatorOrSensor(n.id)
        a1 == IF ~has_dag_import
              THEN AddWarning(acc, StructureWarning("No Airflow imports detected."))
              ELSE acc
        a2 == IF ~has_dag_definition
              THEN AddWarning(a1, StructureWarning("No DAG definition found."))
              ELSE a1
    IN  IF ~has_tasks
        THEN AddWarning(a2, StructureWarning("No task operators detected."))
        ELSE a2

\* Variant of CodeIsBlank: `not dag_code`, without the strip.
CodeIsEmpty(text) == text = <<>>

\* `not dag_code or not dag_code.strip()`
CodeIsBlank(text) == text = <<>> \/ Strip(text) = <<>>

\* Variant of LinenoOrZero: e.lineno as it is.
LinenoAsReported(lineno) == lineno

\* e.lineno or 0
LinenoOrZero(lineno) == IF lineno = NoLine THEN 0 ELSE lineno

SyntaxChecks(acc, code) ==
    IF CodeIsBlank(code.text)
    THEN AddError(acc, Finding("syntax", NoField, NoIndex, 0,
             "DAG code is empty", <<>>, <<>>, "absent"))
    ELSE IF code.parse.kind = "ok"
    THEN _check_dag_structure(acc, code.parse.tree)
    ELSE IF code.parse.kind = "SyntaxError"
    THEN AddError(acc, Finding("syntax", NoField, NoIndex,
             LinenoOrZero(code.parse.lineno), "Syntax error at line", <<>>, <<>>,
             IF code.parse.has_text THEN "text" ELSE "None"))
    ELSE AddError(acc, Finding("validation", NoField, NoIndex, 0,
             "Validation error", <<>>, <<>>, "absent"))

----------------------------------------------------------------------------
(* The instance *)

\* Variant of ResetAccumulators: the two lists are emptied in place
\* (self.errors.clear(); self.warnings.clear()).
ClearAccumulators(h, errors, warnings) ==
    [heap |-> [h EXCEPT ![errors] = <<>>, ![warnings] = <<>>],
     errors |-> errors, warnings |-> warnings]

\* Variant of ResetAccumulators: the two lists are kept.
KeepAccumulators(h, errors, warnings) ==
    [heap |-> h, errors |-> errors, warnings |-> warnings]

\* self.errors = []; self.warnings = []: two new list objects.
ResetAccumulators(h, errors, warnings) ==
    [heap |-> h \o <<<<>>, <<>>>>, errors |-> Len(h) + 1, warnings |-> Len(h) + 2]

\* Variant of _build_result: valid also asks for no warnings.
_build_result_clean(h, errors, warnings) ==
    [valid |-> Len(h[errors]) = 0 /\ Len(h[warnings]) = 0,
     errors |-> errors, warnings |-> warnings]

\* The returned dict: valid is computed now, the two lists are the objects
\* self.errors and self.warnings refer to.
_build_result(h, errors, warnings) ==
    [valid |-> Len(h[errors]) = 0, errors |-> errors, warnings |-> warnings]

\* The checks append to the two list objects of the instance.
RunChecks(op, arg, h, errors, warnings) ==
    LET before == Acc(h[errors], h[warnings])
        after == IF op = "validate_syntax"
                 THEN SyntaxChecks(before, arg)
                 ELSE StructureChecks(before, arg)
    IN  [h EXCEPT ![errors] = after.errors, ![warnings] = after.warnings]

\* One whole call of validate_syntax or validate_structure.
Call(op, arg) ==
    /\ Len(returned) < MaxCalls
    /\ LET reset == ResetAccumulators(heap, self_errors, self_warnings)
           h == RunChecks(op, arg, reset.heap, reset.errors, reset.warnings)
       IN  /\ heap' = h
           /\ self_errors' = reset.errors
           /\ self_warnings' = reset.warnings
           /\ returned' = Append(returned,
                  [op |-> op, arg |-> arg,
                   result |-> _build_result(h, reset.errors, reset.warnings)])
    /\ UNCHANGED <<dag_spec, dag_code, threads, request, response, search>>

----------------------------------------------------------------------------
(* Inputs *)

Task(task_id, operator_type, params, parameters, dependencies) ==
    [task_id |-> task_id, operator_type |-> operator_type, params |-> params,
     parameters |-> parameters, dependencies |-> dependencies]

Connection(conn_id, has_conn_type) ==
    [conn_id |-> conn_id, has_conn_type |-> has_conn_type]

Variable(key) == [key |-> key]

Specification(dag_id, description, schedule, start_date, tasks, connections, variables, other_keys) ==
    [is_none |-> FALSE, other_keys |-> other_keys, dag_id |-> dag_id,
     description |-> description, schedule |-> schedule,
     start_date |-> start_date, tasks |-> tasks, connections |-> connections,
     variables |-> variables]

\* validate_structure(None)
NoneSpec ==
    [Specification(Absent, AbsentName, AbsentName, AbsentName, Absent, Absent,
                   Absent, FALSE) EXCEPT !.is_none = TRUE]

GoodTask == Task(Str(<<"a">>), Name("BashOperator"), "nonempty", "absent", Absent)

\* test_validator.py, test_structure_validation, Test 1 (with a short id).
BaseSpec ==
    Specification(Str(<<"a">>), Name("d"), Name("@daily"), AbsentName,
                  List(<<GoodTask>>), Absent, Absent, FALSE)

\* The task-graph family: task ids and dependency lists vary.
TaskIdPool == {<<"a">>, <<"b">>}
DepPool == TaskIdPool \cup {<<"z">>}

GraphTask(id, deps) == Task(id, Name("BashOperator"), "nonempty", "absent", deps)

\* The dependency lists of MaxTasks tasks with at most MaxEdges entries in all.
\* A task without dependencies has no 'dependencies' key in this family (the
\* four-task family has the empty list).
DepLists == {Absent} \cup {List(l) : l \in SeqsUpTo(DepPool, MaxEdges) \ {<<>>}}

EdgeCount(deps) ==
    LET RECURSIVE Sum(_)
        Sum(n) == IF n = 0 THEN 0 ELSE Len(GetOrEmptyList(deps[n]).v) + Sum(n - 1)
    IN  Sum(Len(deps))

DepVectors == {deps \in [1..MaxTasks -> DepLists] : EdgeCount(deps) <= MaxEdges}

\* The task lists of up to MaxTasks tasks: the prefixes of the full ones.
GraphTaskLists ==
    {[i \in 1..n |-> GraphTask(ids[i], deps[i])] :
        n \in 0..MaxTasks,
        ids \in [1..MaxTasks -> {Absent} \cup {Str(t) : t \in TaskIdPool}],
        deps \in DepVectors}

GraphSpecs == {[BaseSpec EXCEPT !.tasks = List(l)] : l \in GraphTaskLists}

\* The three-task family: any three ids, each task with at most one dependency.
TripleIds == {<<"a">>, <<"b">>, <<"c">>}

TripleDeps == {Absent} \cup {List(<<d>>) : d \in TripleIds \cup {<<"z">>}}

TripleSpecs ==
    {[BaseSpec EXCEPT !.tasks = List([i \in 1..3 |-> GraphTask(Str(ids[i]), deps[i])])] :
        ids \in [1..3 -> TripleIds], deps \in [1..3 -> TripleDeps]}

\* The four-task family: tasks a, b, c, d in this order, each depending on
\* at most two of the other three (chains, diamonds, shared dependencies,
\* one cycle or several).
QuadIds == <<<<"a">>, <<"b">>, <<"c">>, <<"d">>>>

QuadDeps(n) ==
    {List(<<>>)}
    \cup {List(<<QuadIds[i]>>) : i \in (1..4) \ {n}}
    \cup {List(<<QuadIds[p[1]]>> \o <<QuadIds[p[2]]>>) :
            p \in {q \in ((1..4) \ {n}) \X ((1..4) \ {n}) : q[1] < q[2]}}

QuadSpecs ==
    {[BaseSpec EXCEPT !.tasks =
          List(<<GraphTask(Str(QuadIds[1]), d1), GraphTask(Str(QuadIds[2]), d2),
                 GraphTask(Str(QuadIds[3]), d3), GraphTask(Str(QuadIds[4]), d4)>>)] :
        d1 \in QuadDeps(1), d2 \in QuadDeps(2), d3 \in QuadDeps(3), d4 \in QuadDeps(4)}

\* The task-field family: operator_type and the parameter mappings vary.
FieldTasks ==
    {Task(id, op, params, parameters, Absent) :
        id \in {Absent, Str(<<"a">>), Str(<<"a", " ">>)},
        op \in {AbsentName, NullName, Name(""), Name("BashOperator"),
                Name("UnknownOperator")},
        params \in {"absent", "empty", "nonempty"},
        parameters \in {"absent", "nonempty"}}

FieldTaskSpecs ==
    {[BaseSpec EXCEPT !.tasks = List(<<t>>)] : t \in FieldTasks}
    \cup {[BaseSpec EXCEPT !.tasks = List(<<GoodTask, t>>)] : t \in FieldTasks}

\* The id family: the dag_id varies character by character.
IdAlphabet == {"a", "A", " ", "\n"}

DagIds ==
    {Absent, Null}
    \cup {Str(s) : s \in SeqsUpTo(IdAlphabet, MaxIdLen)}
    \cup {Str(Repeat("a", MaxDagIdLength)), Str(Repeat("a", MaxDagIdLength + 1)),
          Str(Repeat("A", MaxDagIdLength) \o <<" ">>)}

IdSpecs ==
    {[BaseSpec EXCEPT !.dag_id = id, !.tasks = tasks] :
        id \in DagIds, tasks \in {List(<<>>), List(<<GoodTask>>)}}

\* The top-level family: which keys are there, and what they hold.
TopSpecs ==
    {Specification(id, description, schedule, start_date, tasks, Absent, Absent,
                   other_keys) :
        id \in {Absent, Null, Str(<<"a">>), Str(<<"A", " ">>)},
        description \in {AbsentName, NullName, Name("d")},
        schedule \in {AbsentName, NullName, Name("None"), Name("@daily"),
                      Name("0 0 * * *"), Name("every day")},
        start_date \in {AbsentName, Name("2024-01-01"),
                        Name("2024-01-01T10:00:00"), Name("01/01/2024")},
        tasks \in {Absent, Null, List(<<>>), List(<<GoodTask>>)},
        other_keys \in BOOLEAN}

\* The connections / variables family.
Connections ==
    {Connection(id, type) : id \in {Absent, Str(<<"p">>)}, type \in BOOLEAN}

Variables == {Variable(key) : key \in {Absent, Str(<<"k">>)}}

ItemSpecs ==
    {[BaseSpec EXCEPT !.connections = connections, !.variables = variables,
                      !.tasks = tasks] :
        connections \in {Absent} \cup {List(l) : l \in SeqsUpTo(Connections, MaxItems)},
        variables \in {Absent} \cup {List(l) : l \in SeqsUpTo(Variables, MaxItems)},
        tasks \in {Absent, List(<<>>), List(<<GoodTask>>)}}

\* The repeated-identifier family: lists of connections or of variables over
\* two identifiers, one item longer than those of the family above.
ItemIds == {<<"p">>, <<"q">>}

DuplicateItemSpecs ==
    {[BaseSpec EXCEPT !.connections = List(l)] :
        l \in SeqsUpTo({Connection(Str(id), TRUE) : id \in ItemIds}
                       \cup {Connection(Absent, TRUE)}, MaxItems + 1)}
    \cup {[BaseSpec EXCEPT !.variables = List(l)] :
            l \in SeqsUpTo({Variable(Str(id)) : id \in ItemIds}
                           \cup {Variable(Absent)}, MaxItems + 1)}

\* The mixed family: specifications with faults in several sub-checks at
\* once (test_manual.py, Test 2, with short ids, and variations of it).
MixedTaskLists ==
    {<<GoodTask>>,
     <<Task(Str(<<"a", " ">>), Name("UnknownOperator"), "absent", "absent",
            List(<<<<"z">>, <<"a", " ">>>>)),
       Task(Str(<<"a", " ">>), Name("BashOperator"), "absent", "absent", Absent)>>,
     <<Task(Str(<<"b">>), AbsentName, "empty", "absent", List(<<<<"a">>, <<"z">>>>)),
       Task(Absent, Name("BashOperator"), "nonempty", "absent", List(<<<<"z">>>>)),
       Task(Str(<<"a">>), Name("UnknownOperator"), "nonempty", "absent",
            List(<<<<"z">>, <<"b">>>>)),
       Task(Str(<<"b">>), Name("BashOperator"), "nonempty", "absent",
            List(<<<<"b">>>>))>>}

MixedSpecs ==
    {Specification(id, Name("d"), schedule, start_date, List(tasks), connections,
                   variables, FALSE) :
        id \in {Null, Str(<<"a">>), Str(<<"A", " ">>)},
        schedule \in {AbsentName, Name("every day")},
        start_date \in {Name("2024-01-01"), Name("01/01/2024")},
        tasks \in MixedTaskLists,
        connections \in {Absent,
                         List(<<Connection(Str(<<"p">>), FALSE),
                                Connection(Absent, TRUE),
                                Connection(Str(<<"p">>), TRUE)>>)},
        variables \in {Absent,
                       List(<<Variable(Str(<<"k">>)), Variable(Absent),
                              Variable(Str(<<"k">>))>>)}}

\* No request has come in, none was answered.
NoRequest == [is_none |-> TRUE, dag_code |-> 0, dag_spec |-> 0, other_keys |-> FALSE]
NoResponse ==
    [status |-> 0, valid |-> FALSE, errors |-> <<>>, warnings |-> <<>>, raised |-> FALSE]

\* No cycle search is under way.
NoSearch ==
    [visited |-> {}, rec_stack |-> {}, frames |-> <<>>, root |-> 0,
     result |-> "none", expanded |-> <<>>]

\* The source texts, and what the parser makes of them.
Code(text, parse) == [text |-> text, parse |-> parse]

TextAlphabet == {" ", "\n", "x"}

NodePool ==
    {ImportFromNode(TRUE, TRUE), ImportFromNode(TRUE, FALSE),
     ImportFromNode(FALSE, TRUE), ImportNode(TRUE),
     CallNode(TRUE, "DAG"), CallNode(TRUE, "BashOperator"),
     CallNode(TRUE, "S3KeySensor"), CallNode(TRUE, "print"),
     CallNode(FALSE, "BashOperator")}

MaxLineno == 2

ParseOutcomes ==
    {ParseOk(tree) : tree \in SeqsUpTo(NodePool, MaxNodes)}
    \cup {ParseSyntaxError(lineno, has_text) :
            lineno \in {NoLine} \cup 0..MaxLineno, has_text \in BOOLEAN}
    \cup {ParseException}

\* test_validator.py, test_syntax_validation, Test 1.
BaseCode ==
    Code(<<"x">>,
         ParseOk(<<ImportFromNode(TRUE, TRUE), CallNode(TRUE, "BashOperator")>>))

\* Every outcome on one text, and every text with one outcome of each kind.
CodeInputs ==
    {Code(<<"x">>, parse) : parse \in ParseOutcomes}
    \cup {Code(text, parse) :
            text \in SeqsUpTo(TextAlphabet, MaxTextLen),
            parse \in {ParseOk(<<>>), ParseSyntaxError(1, TRUE), ParseException}}

----------------------------------------------------------------------------
(* The state machine *)

\* A constructed instance (__init__) in the hands of a caller.
\* What the caller holds: one family varies while the other argument is fixed.
Init ==
    /\ \/ dag_spec = NoneSpec /\ dag_code = BaseCode
       \/ dag_spec \in GraphSpecs /\ dag_code = BaseCode
       \/ dag_spec \in TripleSpecs /\ dag_code = BaseCode
       \/ dag_spec \in QuadSpecs /\ dag_code = BaseCode
       \/ dag_spec \in FieldTaskSpecs /\ dag_code = BaseCode
       \/ dag_spec \in IdSpecs /\ dag_code = BaseCode
       \/ dag_spec \in TopSpecs /\ dag_code = BaseCode
       \/ dag_spec \in ItemSpecs /\ dag_code = BaseCode
       \/ dag_spec \in DuplicateItemSpecs /\ dag_code = BaseCode
       \/ dag_spec \in MixedSpecs /\ dag_code = BaseCode
       \/ dag_spec = BaseSpec /\ dag_code \in CodeInputs
    /\ heap = <<<<>>, <<>>>>
    /\ self_errors = 1
    /\ self_warnings = 2
    /\ returned = <<>>
    /\ threads = <<>>
    /\ request = NoRequest
    /\ response = NoResponse
    /\ search = NoSearch

validate_syntax == Call("validate_syntax", dag_code)

validate_structure == Call("validate_structure", dag_spec)

Next == validate_syntax \/ validate_structure

Spec == Init /\ [][Next]_vars

----------------------------------------------------------------------------
(* Two callers at the same time *)

\* The callers; each makes one call.  Between two statements of one caller
\* the other may run.  A call is: self.errors = [], self.warnings = [], the
\* appends of its checks one by one, and the return of _build_result().
Threads == {1, 2}

\* The appends a call makes, in program order.
AppendsOf(op, arg) ==
    (IF op = "validate_syntax"
     THEN SyntaxChecks(Acc(<<>>, <<>>), arg)
     ELSE StructureChecks(Acc(<<>>, <<>>), arg)).log

\* Variant of InstanceAttribute: errors / warnings as attributes of the class.
ClassAttribute(validator) == 1

\* self.errors and self.warnings are attributes of the instance (__init__).
InstanceAttribute(validator) == validator

\* Variant of NewList: the list the field refers to is emptied in place.
ClearList(h, ref) == [heap |-> [h EXCEPT ![ref] = <<>>], ref |-> ref]

\* self.errors = []: a new list object, and the field refers to it.
NewList(h, ref) == [heap |-> Append(h, <<>>), ref |-> Len(h) + 1]

\* A caller that has not returned holds no dict yet.  Once it has, result is
\* the dict and at_return the content the dict had when it was returned.
NoResult == [valid |-> FALSE, errors |-> 0, warnings |-> 0]
NoContent == [valid |-> FALSE, errors |-> <<>>, warnings |-> <<>>]

Thread(op, arg, validator) ==
    [pc |-> "call", op |-> op, arg |-> arg, validator |-> validator,
     appends |-> AppendsOf(op, arg), result |-> NoResult, at_return |-> NoContent,
     overlapped |-> FALSE]

\* The calls the callers make: texts and specifications without findings,
\* with warnings only, with one error, and with errors and warnings mixed.
ThreadCalls ==
    {[op |-> "validate_syntax", arg |-> code] :
        code \in {BaseCode, Code(<<"x">>, ParseOk(<<>>)), Code(<<" ">>, ParseOk(<<>>))}}
    \cup {[op |-> "validate_structure", arg |-> spec] :
            spec \in {BaseSpec, [BaseSpec EXCEPT !.start_date = Name("2024-01-01")],
                      NoneSpec,
                      Specification(Str(<<"A", " ">>), AbsentName, AbsentName,
                                    Name("01/01/2024"), Absent, Absent, Absent, FALSE)}}

\* Two constructed instances; the second caller uses the first caller's
\* instance or its own.
ThreadsInit ==
    /\ \E first \in ThreadCalls, second \in ThreadCalls, validator \in {1, 2} :
           threads = <<Thread(first.op, first.arg, 1),
                       Thread(second.op, second.arg, validator)>>
    /\ heap = <<<<>>, <<>>, <<>>, <<>>>>
    /\ self_errors = <<1, 3>>
    /\ self_warnings = <<2, 4>>
    /\ dag_spec = BaseSpec
    /\ dag_code = BaseCode
    /\ returned = <<>>
    /\ request = NoRequest
    /\ response = NoResponse
    /\ search = NoSearch

\* The caller has entered its call and has not returned.
MidCall(t) == threads[t].pc \in {"reset_warnings", "check"}

\* Caller t makes a step; a caller is marked overlapped once another caller
\* has made a step between its first and its last.
Advance(t, pc, appends, result) ==
    threads' =
        [u \in Threads |->
            IF u = t
            THEN [threads[t] EXCEPT
                      !.pc = pc, !.appends = appends, !.result = result,
                      !.at_return = IF pc = "done"
                                    THEN [valid |-> result.valid,
                                          errors |-> heap[result.errors],
                                          warnings |-> heap[result.warnings]]
                                    ELSE @,
                      !.overlapped = @ \/ \E o \in Threads \ {t} : MidCall(o)]
            ELSE [threads[u] EXCEPT !.overlapped = @ \/ MidCall(u)]]

reset_errors(t) ==
    /\ threads[t].pc = "call"
    /\ LET self == InstanceAttribute(threads[t].validator)
           new == NewList(heap, self_errors[self])
       IN  /\ heap' = new.heap
           /\ self_errors' = [self_errors EXCEPT ![self] = new.ref]
    /\ Advance(t, "reset_warnings", threads[t].appends, threads[t].result)
    /\ UNCHANGED <<dag_spec, dag_code, self_warnings, returned, request, response,
                   search>>

reset_warnings(t) ==
    /\ threads[t].pc = "reset_warnings"
    /\ LET self == InstanceAttribute(threads[t].validator)
           new == NewList(heap, self_warnings[self])
       IN  /\ heap' = new.heap
           /\ self_warnings' = [self_warnings EXCEPT ![self] = new.ref]
    /\ Advance(t, "check", threads[t].appends, threads[t].result)
    /\ UNCHANGED <<dag_spec, dag_code, self_errors, returned, request, response,
                   search>>

\* self.errors.append(...) or self.warnings.append(...): the next append of
\* the call, to the list the field refers to now.
append(t) ==
    /\ threads[t].pc = "check"
    /\ threads[t].appends # <<>>
    /\ LET self == InstanceAttribute(threads[t].validator)
           next == Head(threads[t].appends)
           ref == IF next.list = "errors" THEN self_errors[self] ELSE self_warnings[self]
       IN  heap' = [heap EXCEPT ![ref] = Append(@, next.finding)]
    /\ Advance(t, "check", Tail(threads[t].appends), threads[t].result)
    /\ UNCHANGED <<dag_spec, dag_code, self_errors, self_warnings, returned,
                   request, response, search>>

\* return self._build_result()
return_result(t) ==
    /\ threads[t].pc = "check"
    /\ threads[t].appends = <<>>
    /\ LET self == InstanceAttribute(threads[t].validator)
       IN  Advance(t, "done", <<>>,
                   _build_result(heap, self_errors[self], self_warnings[self]))
    /\ UNCHANGED <<dag_spec, dag_code, heap, self_errors, self_warnings, returned,
                   request, response, search>>

ThreadsNext ==
    \E t \in Threads :
        \/ reset_errors(t)
        \/ reset_warnings(t)
        \/ append(t)
        \/ return_result(t)

ThreadsSpec == ThreadsInit /\ [][ThreadsNext]_vars

----------------------------------------------------------------------------
(* The /validate/dag endpoint (app.py) *)

\* What the body holds under dag_code / dag_spec: the key is absent, or its
\* value is null, a non-zero number, or a string / an object (in v; the other
\* kinds carry no value, their v is never read).
CodeValue(code) == [k |-> "str", v |-> code]
SpecValue(spec) == [k |-> "dict", v |-> spec]

EmptyDict ==
    Specification(Absent, AbsentName, AbsentName, AbsentName, Absent, Absent,
                  Absent, FALSE)

NoCode(kind) == [k |-> kind, v |-> Code(<<>>, ParseOk(<<>>))]
NoSpec(kind) == [k |-> kind, v |-> EmptyDict]

\* data.get(key): None for an absent key.
GetValue(entry) == IF entry.k = "absent" THEN [entry EXCEPT !.k = "null"] ELSE entry

\* The body: None, or a dict with or without the keys dag_code and dag_spec.
Request(dag_code_entry, dag_spec_entry, other_keys) ==
    [is_none |-> FALSE, dag_code |-> dag_code_entry, dag_spec |-> dag_spec_entry,
     other_keys |-> other_keys]

\* `not data`
DataIsFalsy(data) ==
    \/ data.is_none
    \/ data.dag_code.k = "absent" /\ data.dag_spec.k = "absent" /\ ~data.other_keys

\* `if dag_code:` and `if dag_spec:` on what data.get() gave.
CodeIsTruthy(entry) == entry.k = "number" \/ (entry.k = "str" /\ entry.v.text # <<>>)
SpecIsTruthy(entry) == entry.k = "number" \/ (entry.k = "dict" /\ ~SpecIsFalsy(entry.v))

\* On a number validate_syntax raises at dag_code.strip() and
\* validate_structure at `field not in spec`, both after the reset.
Raises(entry) == entry.k = "number"

Response(status, valid, errors, warnings, raised) ==
    [status |-> status, valid |-> valid, errors |-> errors, warnings |-> warnings,
     raised |-> raised]

\* Variant of StatusCode: always 200.
StatusCodeOk(is_valid) == 200

\* status_code = 200 if is_valid else 422
StatusCode(is_valid) == IF is_valid THEN 200 ELSE 422

\* The validator of a request, val = [heap, errors, warnings, returned,
\* raised]: the list objects, self.errors, self.warnings, the results the
\* handler holds, and whether a check has raised.
CheckRaised(val, reset) ==
    [val EXCEPT !.heap = reset.heap, !.errors = reset.errors,
                !.warnings = reset.warnings, !.raised = TRUE]

CheckReturned(val, reset, op, arg, h) ==
    [heap |-> h, errors |-> reset.errors, warnings |-> reset.warnings,
     returned |-> Append(val.returned,
                     [op |-> op, arg |-> arg,
                      result |-> _build_result(h, reset.errors, reset.warnings)]),
     raised |-> FALSE]

CheckRuns(val, reset, op, entry) ==
    IF Raises(entry)
    THEN CheckRaised(val, reset)
    ELSE CheckReturned(val, reset, op, entry.v,
             RunChecks(op, entry.v, reset.heap, reset.errors, reset.warnings))

\* One check of the handler: skipped when the value is falsy, and not
\* reached when the check before it has raised.
Check(val, op, entry, invoke) ==
    IF ~invoke \/ val.raised
    THEN val
    ELSE CheckRuns(val, ResetAccumulators(val.heap, val.errors, val.warnings),
                   op, entry)

\* all_errors / all_warnings: extend() with each result's list, in the order
\* syntax_validation, structure_validation.
RECURSIVE Extend(_, _, _, _)
Extend(h, results, n, key) ==
    IF n > Len(results)
    THEN <<>>
    ELSE h[results[n].result[key]] \o Extend(h, results, n + 1, key)

Combined(all_errors, all_warnings) ==
    Response(StatusCode(Len(all_errors) = 0), Len(all_errors) = 0, all_errors,
             all_warnings, FALSE)

\* The response of a request that got past the two 400 answers.
Respond(val) ==
    IF val.raised
    THEN Response(500, FALSE, <<>>, <<>>, TRUE)
    ELSE Combined(Extend(val.heap, val.returned, 1, "errors"),
                  Extend(val.heap, val.returned, 1, "warnings"))

Handled(val, answer) == [val |-> val, response |-> answer]

\* No validator: what is there before `validator = DAGValidator()`.
NoValidator(h, errors, warnings) ==
    [heap |-> h, errors |-> errors, warnings |-> warnings, returned |-> <<>>,
     raised |-> FALSE]

\* validator = DAGValidator()
NewValidator(h) ==
    [heap |-> h \o <<<<>>, <<>>>>, errors |-> Len(h) + 1, warnings |-> Len(h) + 2,
     returned |-> <<>>, raised |-> FALSE]

RunBoth(validator, dag_code_value, dag_spec_value) ==
    Check(Check(validator, "validate_syntax", dag_code_value,
                CodeIsTruthy(dag_code_value)),
          "validate_structure", dag_spec_value, SpecIsTruthy(dag_spec_value))

AfterChecks(val) == Handled(val, Respond(val))

\* The handler, from the body to the validator it used and its response.
Handle(data) ==
    IF DataIsFalsy(data)
    THEN Handled(NoValidator(heap, self_errors, self_warnings),
                 Response(400, FALSE, <<>>, <<>>, FALSE))
    ELSE IF /\ ~CodeIsTruthy(GetValue(data.dag_code))
            /\ ~SpecIsTruthy(GetValue(data.dag_spec))
    THEN Handled(NoValidator(heap, self_errors, self_warnings),
                 Response(400, FALSE, <<>>, <<>>, FALSE))
    ELSE AfterChecks(RunBoth(NewValidator(heap), GetValue(data.dag_code),
                             GetValue(data.dag_spec)))

\* The bodies: each key absent, null, a number, or a value of its kind.
RequestCodes ==
    {Code(<<>>, ParseOk(<<>>)), Code(<<" ">>, ParseOk(<<>>)), BaseCode,
     Code(<<"x">>, ParseOk(<<>>)), Code(<<"x">>, ParseSyntaxError(1, TRUE)),
     Code(<<"x">>, ParseException)}

RequestSpecs == {EmptyDict, BaseSpec} \cup IdSpecs

Requests ==
    {[Request(NoCode("absent"), NoSpec("absent"), FALSE) EXCEPT !.is_none = TRUE]}
    \cup {Request(dag_code_entry, dag_spec_entry, other_keys) :
            dag_code_entry \in {NoCode(kind) : kind \in {"absent", "null", "number"}}
                               \cup {CodeValue(c) : c \in RequestCodes},
            dag_spec_entry \in {NoSpec(kind) : kind \in {"absent", "null", "number"}}
                               \cup {SpecValue(s) : s \in RequestSpecs},
            other_keys \in BOOLEAN}

\* A request has come in; no validator exists yet.
EndpointInit ==
    /\ request \in Requests
    /\ response = NoResponse
    /\ search = NoSearch
    /\ heap = <<>>
    /\ self_errors = 0
    /\ self_warnings = 0
    /\ returned = <<>>
    /\ threads = <<>>
    /\ dag_spec = BaseSpec
    /\ dag_code = BaseCode

Answer(handled) ==
    /\ response' = handled.response
    /\ heap' = handled.val.heap
    /\ self_errors' = handled.val.errors
    /\ self_warnings' = handled.val.warnings
    /\ returned' = handled.val.returned

validate_dag ==
    /\ response = NoResponse
    /\ Answer(Handle(request))
    /\ UNCHANGED <<request, threads, dag_spec, dag_code, search>>

EndpointNext == validate_dag

EndpointSpec == EndpointInit /\ [][EndpointNext]_vars

----------------------------------------------------------------------------
(* The cycle search, step by step *)

\* graph, as _has_circular_dependencies builds it from the task list.
SearchGraph == BuildGraph(EmptyGraph, GetOrEmptyList(dag_spec.tasks).v, 1)

\* A call of has_cycle(node) that has not returned, at its j-th neighbour.
Frame(node, j) == [node |-> node, j |-> j]

Top == search.frames[Len(search.frames)]

Pop(frames) == SubSeq(frames, 1, Len(frames) - 1)

NeighborAt(frame) == Neighbors(SearchGraph, frame.node)[frame.j]

HasNeighbor(frame) == frame.j <= Len(Neighbors(SearchGraph, frame.node))

\* The caller goes on with its next neighbour.
NextNeighbor(frames) ==
    [frames EXCEPT ![Len(frames)] = Frame(@.node, @.j + 1)]

\* has_cycle(node) is entered: visited.add(node); rec_stack.add(node).
\* expanded lists the nodes has_cycle was entered with, in this order.
Enter(s, node) ==
    [s EXCEPT !.visited = @ \cup {node},
              !.rec_stack = @ \cup {node},
              !.frames = Append(@, Frame(node, 1)),
              !.expanded = Append(@, node)]

\* Variant of RootIsNew: the top-level loop does not look at visited.
RootIsAny(visited, node) == TRUE

\* if node not in visited
RootIsNew(visited, node) == node \notin visited

Running == search.result = "running"

AtTopLevel == Running /\ search.frames = <<>>

InHasCycle == Running /\ search.frames # <<>>

SearchFrame ==
    UNCHANGED <<dag_spec, dag_code, heap, self_errors, self_warnings, returned,
                threads, request, response>>

\* for node in graph: if node not in visited: has_cycle(node)
for_node_call ==
    /\ AtTopLevel
    /\ search.root <= Len(SearchGraph.keys)
    /\ RootIsNew(search.visited, SearchGraph.keys[search.root])
    /\ search' = Enter(search, SearchGraph.keys[search.root])
    /\ SearchFrame

\* for node in graph: node is in visited
for_node_skip ==
    /\ AtTopLevel
    /\ search.root <= Len(SearchGraph.keys)
    /\ ~RootIsNew(search.visited, SearchGraph.keys[search.root])
    /\ search' = [search EXCEPT !.root = @ + 1]
    /\ SearchFrame

\* The loop over graph is over: return False.
for_node_end ==
    /\ AtTopLevel
    /\ search.root > Len(SearchGraph.keys)
    /\ search' = [search EXCEPT !.result = "False"]
    /\ SearchFrame

\* if neighbor not in visited: has_cycle(neighbor)
neighbor_call ==
    /\ InHasCycle
    /\ HasNeighbor(Top)
    /\ NeighborAt(Top) \notin search.visited
    /\ search' = Enter(search, NeighborAt(Top))
    /\ SearchFrame

\* elif neighbor in rec_stack: return True
neighbor_on_stack ==
    /\ InHasCycle
    /\ HasNeighbor(Top)
    /\ NeighborAt(Top) \in search.visited
    /\ NeighborAt(Top) \in search.rec_stack
    /\ search' = [search EXCEPT !.frames = Pop(@), !.result = "returning True"]
    /\ SearchFrame

\* The neighbour is visited and not on the stack: the loop goes on.
neighbor_skip ==
    /\ InHasCycle
    /\ HasNeighbor(Top)
    /\ NeighborAt(Top) \in search.visited
    /\ NeighborAt(Top) \notin search.rec_stack
    /\ search' = [search EXCEPT !.frames = NextNeighbor(@)]
    /\ SearchFrame

\* The neighbours are done: rec_stack.remove(node); return False.  The
\* caller, has_cycle or the loop over graph, goes on.
return_false ==
    /\ InHasCycle
    /\ ~HasNeighbor(Top)
    /\ search' = [search EXCEPT
                      !.rec_stack = @ \ {Top.node},
                      !.frames = IF Len(@) > 1 THEN NextNeighbor(Pop(@)) ELSE <<>>,
                      !.root = IF Len(search.frames) > 1 THEN @ ELSE @ + 1]
    /\ SearchFrame

\* if has_cycle(...): return True, in each caller up to the loop over graph.
return_true ==
    /\ search.result = "returning True"
    /\ search' = IF search.frames = <<>>
                 THEN [search EXCEPT !.result = "True"]
                 ELSE [search EXCEPT !.frames = Pop(@)]
    /\ SearchFrame

\* The task lists searched: MaxTasks tasks with the first ids of QuadIds,
\* each depending on up to two of these ids and the dangling id z; the
\* four-task lists whose last task depends on nothing; and the task lists of
\* the mixed family (repeated task_id, task without task_id).
SearchSpecs ==
    LET pool == SubSeq(QuadIds, 1, MaxTasks) \o <<<<"z">>>>
        lists == {List(<<>>)}
                 \cup {List(<<pool[i]>>) : i \in 1..Len(pool)}
                 \cup {List(<<pool[p[1]], pool[p[2]]>>) :
                         p \in {q \in (1..Len(pool)) \X (1..Len(pool)) : q[1] < q[2]}}
    IN  {[BaseSpec EXCEPT !.tasks =
              List([i \in 1..MaxTasks |-> GraphTask(Str(QuadIds[i]), deps[i])])] :
            deps \in [1..MaxTasks -> lists]}

\* visited = set(); rec_stack = set(), on the graph of a task list.
SearchInit ==
    /\ \/ dag_spec \in SearchSpecs
       \/ dag_spec \in {q \in QuadSpecs : Dependencies(q.tasks.v[4]) = <<>>}
       \/ dag_spec \in {[BaseSpec EXCEPT !.tasks = List(l)] : l \in MixedTaskLists}
    /\ dag_code = BaseCode
    /\ heap = <<>>
    /\ self_errors = 0
    /\ self_warnings = 0
    /\ returned = <<>>
    /\ threads = <<>>
    /\ request = NoRequest
    /\ response = NoResponse
    /\ search = [NoSearch EXCEPT !.root = 1, !.result = "running"]

SearchNext ==
    \/ for_node_call
    \/ for_node_skip
    \/ for_node_end
    \/ neighbor_call
    \/ neighbor_on_stack
    \/ neighbor_skip
    \/ return_false
    \/ return_true

\* The interpreter runs the search without pause: a step that can be taken
\* is taken.
SearchSpec == SearchInit /\ [][SearchNext]_vars /\ WF_vars(SearchNext)

----------------------------------------------------------------------------
(* What the claims speak of *)

\* The dict a call returned, with the content its two lists have now.
View(call) ==
    [valid |-> call.result.valid,
     errors |-> heap[call.result.errors],
     warnings |-> heap[call.result.warnings]]

Calls(op) == {returned[i] : i \in {j \in 1..Len(returned) : returned[j].op = op}}

StructureCalls == Calls("validate_structure")
SyntaxCalls == Calls("validate_syntax")

Count(findings, P(_)) == Cardinality({i \in 1..Len(findings) : P(findings[i])})

\* The tasks of a specification (none when the key is absent or null).
TasksOf(spec) == IF spec.tasks.k = "list" THEN spec.tasks.v ELSE <<>>

HasId(task) == task.task_id.k = "str"

\* The declared dependency edges of the tasks that carry a task_id.
DeclaredEdges(tasks) ==
    UNION {{<<tasks[n].task_id.v, Dependencies(tasks[n])[j]>> :
               j \in 1..Len(Dependencies(tasks[n]))} :
           n \in {m \in 1..Len(tasks) : HasId(tasks[m])}}

\* The nodes reachable from the set S along one or more edges.
RECURSIVE ReachableFrom(_, _)
ReachableFrom(S, edges) ==
    LET step == {e[2] : e \in {d \in edges : d[1] \in S}}
    IN  IF step \subseteq S THEN S ELSE ReachableFrom(S \cup step, edges)

HasDirectedCycle(edges) ==
    \E e \in edges : e[1] \in ReachableFrom({e[2]}, edges)

IsCircularError(f) ==
    f.type = "dependency" /\ f.message = "Circular dependency detected in task graph"

IsDanglingError(f) ==
    f.type = "dependency" /\ f.message = "Task depends on non-existent task"

IsDuplicateTaskError(f) == f.type = "duplicate" /\ f.field = "task_id"

IsStructureError(f) == f.type = "structure"

IsDagIdFormatError(f) == f.type = "format" /\ f.field = "dag_id"

\* C1: whenever the declared dependency edges of a task list whose tasks all
\* carry a task_id contain a directed cycle, validate_structure returns
\* valid = false with a circular-dependency error.
CycleIsReported ==
    \A call \in StructureCalls :
        LET tasks == TasksOf(call.arg)
        IN  (/\ tasks # <<>>
             /\ \A n \in 1..Len(tasks) : HasId(tasks[n])
             /\ HasDirectedCycle(DeclaredEdges(tasks)))
            => /\ ~View(call).valid
               /\ Count(View(call).errors, IsCircularError) >= 1

\* C2: in every returned result, valid is true exactly when the errors are
\* empty, whatever the warnings.
ValidIffNoErrors ==
    \A i \in 1..Len(returned) :
        View(returned[i]).valid <=> (View(returned[i]).errors = <<>>)

\* C2 witness: validate_structure returned valid = true with an
\* unknown-operator warning.
WarningsOnlyIsValid ==
    \E call \in StructureCalls :
        /\ View(call).valid
        /\ \E i \in 1..Len(View(call).warnings) :
               View(call).warnings[i].type = "operator"

\* The dependency entries, over the tasks chosen by Counted, that name no task.
NamesNoTask(tasks, dep) ==
    \A n \in 1..Len(tasks) : ~(HasId(tasks[n]) /\ tasks[n].task_id.v = dep)

DanglingEntries(tasks, Counted(_)) ==
    UNION {{<<n, j>> : j \in {k \in 1..Len(Dependencies(tasks[n])) :
                                NamesNoTask(tasks, Dependencies(tasks[n])[k])}} :
           n \in {m \in 1..Len(tasks) : Counted(tasks[m])}}

AnyTask(task) == TRUE

\* C3 as stated: the 'depends on non-existent task' errors are as many as the
\* dependency entries, of any task, that name no task of the list.
DanglingCountedOverAllTasks ==
    \A call \in StructureCalls :
        TasksOf(call.arg) # <<>>
        => Count(View(call).errors, IsDanglingError)
           = Cardinality(DanglingEntries(TasksOf(call.arg), AnyTask))

\* C3 amended: the 'depends on non-existent task' errors are as many as the
\* dependency entries, of the tasks that carry a task_id, that name no task
\* of the list.
DanglingCountedOverTasksWithId ==
    \A call \in StructureCalls :
        TasksOf(call.arg) # <<>>
        => Count(View(call).errors, IsDanglingError)
           = Cardinality(DanglingEntries(TasksOf(call.arg), HasId))

\* C3 witness: one task names the same missing task twice and gets two errors,
\* while a reference that resolves gets none.
TwoDanglingErrors ==
    \E call \in StructureCalls :
        /\ Count(View(call).errors, IsDanglingError) = 2
        /\ \E n \in 1..Len(TasksOf(call.arg)) :
               /\ HasId(TasksOf(call.arg)[n])
               /\ Dependencies(TasksOf(call.arg)[n]) = <<<<"z">>, <<"z">>>>

\* The tasks whose task_id an earlier task of the list carries.
RepeatedTasks(tasks) ==
    {n \in 1..Len(tasks) :
        /\ HasId(tasks[n])
        /\ \E m \in 1..(n - 1) : HasId(tasks[m]) /\ tasks[m].task_id = tasks[n].task_id}

\* C4: validate_structure reports one 'duplicate' error per task whose
\* task_id an earlier task carries, and is invalid when there is one.
DuplicateTaskIdsReported ==
    \A call \in StructureCalls :
        LET tasks == TasksOf(call.arg)
        IN  /\ Count(View(call).errors, IsDuplicateTaskError)
               = Cardinality(RepeatedTasks(tasks))
            /\ RepeatedTasks(tasks) # {} => ~View(call).valid

\* C4 witness: three tasks with one id give two 'duplicate' errors.
ThreeTasksOneId ==
    \E call \in StructureCalls :
        /\ Cardinality(RepeatedTasks(TasksOf(call.arg))) = 2
        /\ Cardinality(TaskIdSet(TasksOf(call.arg))) = 1
        /\ Count(View(call).errors, IsDuplicateTaskError) = 2

\* C5: on a specification with zero tasks validate_structure returns
\* valid = false with exactly one error of kind 'structure'.
ZeroTasksOneStructureError ==
    \A call \in StructureCalls :
        TasksOf(call.arg) = <<>>
        => /\ ~View(call).valid
           /\ Count(View(call).errors, IsStructureError) = 1

\* C5 witness: a specification with other keys, an empty task list and a
\* faulty connection got its one 'structure' error among other errors.
ZeroTasksAmongOtherErrors ==
    \E call \in StructureCalls :
        /\ call.arg.tasks = List(<<>>)
        /\ call.arg.connections.k = "list"
        /\ Len(View(call).errors) > 1
        /\ Count(View(call).errors, IsStructureError) = 1

\* What a call returns on a newly constructed instance.
FreshResult(op, arg) ==
    LET h == RunChecks(op, arg, <<<<>>, <<>>>>, 1, 2)
    IN  [valid |-> h[1] = <<>>, errors |-> h[1], warnings |-> h[2]]

\* C6: whatever calls were made before on the instance, a call returns what
\* it returns on a new instance.
ReuseEqualsFresh ==
    returned # <<>>
    => LET last == returned[Len(returned)]
       IN  View(last) = FreshResult(last.op, last.arg)

\* C6 witness: validate_structure was called twice on a specification that
\* gets errors and warnings.
ReusedAfterFindings ==
    /\ Len(returned) >= 2
    /\ returned[1].op = "validate_structure"
    /\ returned[2].op = "validate_structure"
    /\ heap[returned[1].result.errors] # <<>>
    /\ heap[returned[1].result.warnings] # <<>>

\* C7: on an empty or absent specification validate_structure returns
\* exactly the one 'structure' error on 'root', no warning, valid = false.
IsEmptySpec(spec) ==
    \/ spec.is_none
    \/ /\ ~spec.other_keys
       /\ {spec.dag_id.k, spec.description.k, spec.schedule.k, spec.start_date.k,
           spec.tasks.k, spec.connections.k, spec.variables.k} = {"absent"}

EmptySpecOneRootError ==
    \A call \in StructureCalls :
        IsEmptySpec(call.arg)
        => /\ ~View(call).valid
           /\ Len(View(call).errors) = 1
           /\ View(call).errors[1].type = "structure"
           /\ View(call).errors[1].field = "root"
           /\ View(call).warnings = <<>>

\* C7 witness: validate_structure was called on the dict without keys.
EmptyDictValidated ==
    \E call \in StructureCalls : IsEmptySpec(call.arg) /\ ~call.arg.is_none

\* C8: on an empty or whitespace-only text validate_syntax returns exactly
\* one error, of kind 'syntax' and line 0, no warning, valid = false.
OnlyWhitespace(text) == \A i \in 1..Len(text) : text[i] \in Whitespace

BlankCodeOneSyntaxError ==
    \A call \in SyntaxCalls :
        OnlyWhitespace(call.arg.text)
        => /\ ~View(call).valid
           /\ Len(View(call).errors) = 1
           /\ View(call).errors[1].type = "syntax"
           /\ View(call).errors[1].line = 0
           /\ View(call).warnings = <<>>

\* C8 witness: validate_syntax was called on a non-empty text of whitespace
\* that the parser would have accepted.
WhitespaceCodeValidated ==
    \E call \in SyntaxCalls :
        /\ call.arg.text # <<>>
        /\ OnlyWhitespace(call.arg.text)
        /\ call.arg.parse.kind = "ok"

\* C9: on a non-blank text that the parser rejects validate_syntax returns
\* exactly one error, of kind 'syntax', on the parser's line (0 when it has
\* none), and no warning; on any other parser exception exactly one error,
\* of kind 'validation', and no warning.
ParseFailureOneError ==
    \A call \in SyntaxCalls :
        (~OnlyWhitespace(call.arg.text) /\ call.arg.parse.kind # "ok")
        => /\ ~View(call).valid
           /\ Len(View(call).errors) = 1
           /\ View(call).warnings = <<>>
           /\ call.arg.parse.kind = "SyntaxError"
              => /\ View(call).errors[1].type = "syntax"
                 /\ View(call).errors[1].line
                    = (IF call.arg.parse.lineno = NoLine THEN 0
                       ELSE call.arg.parse.lineno)
           /\ call.arg.parse.kind = "Exception"
              => View(call).errors[1].type = "validation"

\* C9 witness: the parser rejected a text without reporting a line.
SyntaxErrorWithoutLine ==
    \E call \in SyntaxCalls :
        /\ ~OnlyWhitespace(call.arg.text)
        /\ call.arg.parse.kind = "SyntaxError"
        /\ call.arg.parse.lineno = NoLine

\* C10: a dag_id that is a string and is not made of one or more letters,
\* digits, underscores or hyphens makes validate_structure return
\* valid = false with a 'format' error on dag_id; one that is, of at most
\* 100 characters, gets no 'format' error on dag_id.
MadeOfIdChars(s) == Len(s) >= 1 /\ \A i \in 1..Len(s) : s[i] \in IdChars

BadDagIdIsFormatError ==
    \A call \in StructureCalls :
        (~call.arg.is_none /\ call.arg.dag_id.k = "str")
        => LET id == call.arg.dag_id.v
           IN  /\ ~MadeOfIdChars(id)
                  => /\ ~View(call).valid
                     /\ Count(View(call).errors, IsDagIdFormatError) >= 1
               /\ (MadeOfIdChars(id) /\ Len(id) <= 100)
                  => Count(View(call).errors, IsDagIdFormatError) = 0

Missing(spec, field) == spec[field].k \in {"absent", "null"}

CountFieldFindings(findings, field) ==
    Count(findings, LAMBDA f : f.type = "field" /\ f.field = field)

CountFindingsOn(findings, field) ==
    Count(findings, LAMBDA f : f.field = field)

\* C11: on a non-empty specification each of dag_id, description and tasks
\* gets exactly one 'field' error naming it when it is absent or null (and
\* none otherwise); an absent or null schedule gets exactly one warning and no
\* error, and leaves a specification valid that is valid with a schedule.
RequiredFieldsReported ==
    \A call \in StructureCalls :
        ~IsEmptySpec(call.arg)
        => LET spec == call.arg
               res == View(call)
           IN  /\ \A field \in {"dag_id", "description", "tasks"} :
                      CountFieldFindings(res.errors, field)
                      = (IF Missing(spec, field) THEN 1 ELSE 0)
               /\ Missing(spec, "schedule")
                  => /\ CountFindingsOn(res.warnings, "schedule") = 1
                     /\ CountFindingsOn(res.errors, "schedule") = 0
                     /\ FreshResult("validate_structure",
                            [spec EXCEPT !.schedule = Name("@daily")]).valid
                        => res.valid

\* C11 witness: a specification with dag_id and tasks null and description
\* and schedule absent got its three 'field' errors and the one warning.
AllRequiredFieldsMissing ==
    \E call \in StructureCalls :
        /\ ~IsEmptySpec(call.arg)
        /\ call.arg.dag_id.k = "null"
        /\ call.arg.tasks.k = "null"
        /\ call.arg.description.k = "absent"
        /\ call.arg.schedule.k = "absent"
        /\ Count(View(call).errors, LAMBDA f : f.type = "field") = 3
        /\ CountFindingsOn(View(call).warnings, "schedule") = 1

\* A valid date in the date-only form YYYY-MM-DD, on the dates of the model.
IsDateOnly(start_date) == start_date \in {"2024-01-01"}

\* C12: the start_date check yields one warning and no error for an absent
\* start_date, exactly one 'format' error (and no warning) for a present
\* start_date that is not a valid date-only YYYY-MM-DD value, and no finding
\* for one that is.
StartDateStrictlyDateOnly ==
    \A call \in StructureCalls :
        ~IsEmptySpec(call.arg)
        => LET start_date == call.arg.start_date
               errors == CountFindingsOn(View(call).errors, "start_date")
               warnings == CountFindingsOn(View(call).warnings, "start_date")
           IN  /\ start_date.k = "absent" => (warnings = 1 /\ errors = 0)
               /\ (start_date.k = "str" /\ ~IsDateOnly(start_date.v))
                  => /\ warnings = 0
                     /\ errors = 1
                     /\ Count(View(call).errors,
                              LAMBDA f : f.type = "format" /\ f.field = "start_date") = 1
               /\ (start_date.k = "str" /\ IsDateOnly(start_date.v))
                  => (warnings = 0 /\ errors = 0)

\* The three signals of a parsed tree: (a) an import statement of either form
\* that names the airflow namespace, (b) DAG imported by name from it or
\* called, (c) a call of a name that contains 'Operator' or 'Sensor'.
ImportSignal(tree) ==
    \E i \in 1..Len(tree) : tree[i].node \in {"Import", "ImportFrom"} /\ tree[i].airflow

DagSignal(tree) ==
    \E i \in 1..Len(tree) :
        \/ tree[i].node = "ImportFrom" /\ tree[i].airflow /\ tree[i].names_DAG
        \/ tree[i].node = "Call" /\ tree[i].func_is_name /\ tree[i].id = "DAG"

TaskSignal(tree) ==
    \E i \in 1..Len(tree) :
        tree[i].node = "Call" /\ tree[i].func_is_name /\ NamesOperatorOrSensor(tree[i].id)

SignalsPresent(tree) ==
    (IF ImportSignal(tree) THEN 1 ELSE 0) + (IF DagSignal(tree) THEN 1 ELSE 0)
    + (IF TaskSignal(tree) THEN 1 ELSE 0)

\* C13: on a text that parses validate_syntax returns valid = true with no
\* error, and its warnings are 'structure' warnings, one per missing signal:
\* 3 minus the number of signals present.
WarningsCountMissingSignals ==
    \A call \in SyntaxCalls :
        (~OnlyWhitespace(call.arg.text) /\ call.arg.parse.kind = "ok")
        => /\ View(call).valid
           /\ View(call).errors = <<>>
           /\ Len(View(call).warnings) = 3 - SignalsPresent(call.arg.parse.tree)
           /\ \A i \in 1..Len(View(call).warnings) :
                  View(call).warnings[i].type = "structure"

\* The dict a caller got, with the content its two lists have now.
ThreadView(t) ==
    [valid |-> threads[t].result.valid,
     errors |-> heap[threads[t].result.errors],
     warnings |-> heap[threads[t].result.warnings]]

\* What the caller's call returns when nothing else runs.
Alone(t) == FreshResult(threads[t].op, threads[t].arg)

Done(t) == threads[t].pc = "done"

SharedInstance == threads[1].validator = threads[2].validator

FindingsIn(result) ==
    {result.errors[i] : i \in 1..Len(result.errors)}
    \cup {result.warnings[i] : i \in 1..Len(result.warnings)}

\* C14: two calls on one instance are not safe when they run at the same
\* time.  A call returns something else than it returns alone only when the
\* callers share the instance and their calls overlapped; the witness is such
\* a call.
DiffersOnlyWhenSharedAndOverlapped ==
    \A t \in Threads :
        (Done(t) /\ (threads[t].at_return # Alone(t) \/ ThreadView(t) # Alone(t)))
        => (SharedInstance /\ threads[t].overlapped)

\* C14 witness: on a shared instance a call returned a dict that held, when
\* it was returned, a finding of the other call and not all of its own.
SharedCallReturnsForeignFinding ==
    \E t \in Threads, u \in Threads :
        /\ t # u
        /\ SharedInstance
        /\ Done(t)
        /\ \E f \in FindingsIn(threads[t].at_return) :
               f \notin FindingsIn(Alone(t)) /\ f \in FindingsIn(Alone(u))
        /\ \E f \in FindingsIn(Alone(t)) : f \notin FindingsIn(threads[t].at_return)

\* C15: a call on an instance of its own returns what it returns alone,
\* however the call of the other caller, on another instance, is interleaved
\* with it, and the dict it got keeps that content.
IndependentInstancesIsolated ==
    \A t \in Threads :
        (Done(t) /\ ~SharedInstance)
        => (threads[t].at_return = Alone(t) /\ ThreadView(t) = Alone(t))

\* C15 witness: two overlapping calls on two instances have both returned,
\* each with findings of its own.
OverlappedOnTwoInstances ==
    /\ ~SharedInstance
    /\ \A t \in Threads :
           /\ Done(t)
           /\ threads[t].overlapped
           /\ FindingsIn(threads[t].at_return) # {}
    /\ FindingsIn(threads[1].at_return) # FindingsIn(threads[2].at_return)

\* The request got past the two 400 answers of the endpoint.
ReachedTheChecks == response.status \notin {0, 400}

Invoked(op) == \E i \in 1..Len(returned) : returned[i].op = op

\* What the check op returns on the value the request carries, when the
\* handler has its result; an empty list when it has not.
PartOf(op, entry, key) ==
    IF Invoked(op) THEN FreshResult(op, entry.v)[key] ELSE <<>>

MergedAlone(key) ==
    PartOf("validate_syntax", request.dag_code, key)
    \o PartOf("validate_structure", request.dag_spec, key)

ACheckRaised ==
    \/ CodeIsTruthy(request.dag_code) /\ Raises(request.dag_code)
    \/ SpecIsTruthy(request.dag_spec) /\ Raises(request.dag_spec)

\* C16: for a request that reaches the checks the response carries the
\* syntax result's errors followed by the structure result's errors (and so
\* the warnings), each only for a check that was invoked; valid is true
\* exactly when those errors are empty; the status is 200 exactly when valid,
\* 422 exactly when there are errors, and 500 only when a check raised.
EndpointMergesResults ==
    ReachedTheChecks
    => /\ response.status \in {200, 422, 500}
       /\ response.status = 500 <=> ACheckRaised
       /\ ~ACheckRaised
          => /\ response.errors = MergedAlone("errors")
             /\ response.warnings = MergedAlone("warnings")
             /\ response.valid <=> (response.errors = <<>>)
             /\ response.status = 200 <=> response.valid
             /\ response.status = 422 <=> (response.errors # <<>>)

\* C16 witness: both checks were invoked, each found errors, and the answer
\* is 422 with the syntax errors first.
BothChecksFoundErrors ==
    /\ response.status = 422
    /\ Len(returned) = 2
    /\ returned[1].op = "validate_syntax"
    /\ returned[2].op = "validate_structure"
    /\ heap[returned[1].result.errors] # <<>>
    /\ heap[returned[2].result.errors] # <<>>
    /\ response.errors[1].type = "syntax"

\* The body carries a string under dag_code / an object under dag_spec.
CodePresent == ~request.is_none /\ request.dag_code.k = "str"
SpecPresent == ~request.is_none /\ request.dag_spec.k = "dict"

WellTyped ==
    request.is_none \/ (request.dag_code.k # "number" /\ request.dag_spec.k # "number")

\* C17: a request with neither dag_code nor dag_spec is answered 400 and no
\* check is invoked; any other request has the syntax check invoked exactly
\* when dag_code is present and the structure check exactly when dag_spec is
\* present, and is answered 200 or 422; the empty string and the empty
\* object count as present.
ChecksInvokedWhenPresent ==
    (response.status # 0 /\ WellTyped)
    => IF ~CodePresent /\ ~SpecPresent
       THEN response.status = 400 /\ returned = <<>>
       ELSE /\ Invoked("validate_syntax") <=> CodePresent
            /\ Invoked("validate_structure") <=> SpecPresent
            /\ response.status \in {200, 422}

\* The items of a list of the specification (none when the key is absent).
ItemsOf(spec, field) == IF spec[field].k = "list" THEN spec[field].v ELSE <<>>

\* The items whose identifier an earlier item of the list carries.
RepeatedItems(items, key) ==
    {n \in 1..Len(items) :
        /\ items[n][key].k = "str"
        /\ \E m \in 1..(n - 1) : items[m][key] = items[n][key]}

CountDuplicates(findings, field) ==
    Count(findings, LAMBDA f : f.type = "duplicate" /\ f.field = field)

\* C18: a repeated variable key gives 'duplicate' warnings only, one per
\* occurrence after the first, and variables that all carry a key never
\* change validity; a repeated conn_id gives 'duplicate' errors only, one per
\* occurrence after the first, and makes the specification invalid.
DuplicatesAsymmetric ==
    \A call \in StructureCalls :
        ~IsEmptySpec(call.arg)
        => LET spec == call.arg
               variables == ItemsOf(spec, "variables")
               connections == ItemsOf(spec, "connections")
               res == View(call)
           IN  /\ CountDuplicates(res.warnings, "variable_key")
                  = Cardinality(RepeatedItems(variables, "key"))
               /\ CountDuplicates(res.errors, "variable_key") = 0
               /\ (/\ variables # <<>>
                   /\ \A n \in 1..Len(variables) : variables[n].key.k = "str")
                  => (res.valid
                      <=> FreshResult("validate_structure",
                              [spec EXCEPT !.variables = Absent]).valid)
               /\ CountDuplicates(res.errors, "conn_id")
                  = Cardinality(RepeatedItems(connections, "conn_id"))
               /\ CountDuplicates(res.warnings, "conn_id") = 0
               /\ RepeatedItems(connections, "conn_id") # {} => ~res.valid

\* C18 witness: three variables with one key among them twice repeated: two
\* 'duplicate' warnings and a valid result.
RepeatedVariableKeysValid ==
    \E call \in StructureCalls :
        /\ Len(ItemsOf(call.arg, "variables")) = 3
        /\ Cardinality(RepeatedItems(ItemsOf(call.arg, "variables"), "key")) = 2
        /\ CountDuplicates(View(call).warnings, "variable_key") = 2
        /\ View(call).valid

\* C19: when the declared dependency edges of a task list contain no directed
\* cycle, validate_structure returns no circular-dependency error.
NoFalseCycle ==
    \A call \in StructureCalls :
        ~HasDirectedCycle(DeclaredEdges(TasksOf(call.arg)))
        => Count(View(call).errors, IsCircularError) = 0

\* C19 witness: a diamond (d depends on b and c, both depend on a) was
\* validated and is valid.
DiamondIsValid ==
    \E call \in StructureCalls :
        /\ DeclaredEdges(TasksOf(call.arg))
           = {<<<<"d">>, <<"b">>>>, <<<<"d">>, <<"c">>>>,
              <<<<"b">>, <<"a">>>>, <<<<"c">>, <<"a">>>>}
        /\ View(call).valid

CountCircular(call) == Count(View(call).errors, IsCircularError)

\* A pure 2-cycle: two tasks with two ids, each depending on the other only.
IsPureTwoCycle(tasks) ==
    /\ Len(tasks) = 2
    /\ HasId(tasks[1]) /\ HasId(tasks[2])
    /\ tasks[1].task_id # tasks[2].task_id
    /\ Dependencies(tasks[1]) = <<tasks[2].task_id.v>>
    /\ Dependencies(tasks[2]) = <<tasks[1].task_id.v>>

AtMostOneCircularError ==
    \A call \in StructureCalls : CountCircular(call) <= 1

CycleGivesOneCircularError ==
    \A call \in StructureCalls :
        HasDirectedCycle(DeclaredEdges(TasksOf(call.arg))) => CountCircular(call) = 1

PureTwoCycleOneDependencyError ==
    \A call \in StructureCalls :
        IsPureTwoCycle(TasksOf(call.arg))
        => Count(View(call).errors, LAMBDA f : f.type = "dependency") = 1

\* C20: a result holds at most one circular-dependency error, and exactly
\* one when the declared dependency edges contain a cycle; on a pure 2-cycle
\* it is the only error of kind 'dependency'.
OneCircularErrorPerResult ==
    /\ AtMostOneCircularError
    /\ CycleGivesOneCircularError
    /\ PureTwoCycleOneDependencyError

----------------------------------------------------------------------------
(* Self-dependencies *)

IsSelfDependencyError(f) ==
    f.type = "dependency" /\ f.message = "Task cannot depend on itself"

IsDependencyError(f) == f.type = "dependency"

\* The entries of the dependency lists of the tasks with task_id t that name
\* t itself, counted per task and per occurrence.
SelfReferences(tasks, t) ==
    UNION {{<<n, j>> : j \in {k \in 1..Len(Dependencies(tasks[n])) :
                                Dependencies(tasks[n])[k] = t}} :
           n \in {m \in 1..Len(tasks) : HasId(tasks[m]) /\ tasks[m].task_id.v = t}}

SelfDependent(tasks) == {t \in TaskIdSet(tasks) : SelfReferences(tasks, t) # {}}

\* One 'cannot depend on itself' error per self-reference, and none of the
\* 'non-existent task' kind for it.
SelfReferencesReported ==
    \A call \in StructureCalls :
        LET tasks == TasksOf(call.arg)
            errors == View(call).errors
        IN  \A t \in TaskIdSet(tasks) :
                /\ Count(errors, LAMBDA f : IsSelfDependencyError(f) /\ f.subject = t)
                   = Cardinality(SelfReferences(tasks, t))
                /\ Count(errors, LAMBDA f : IsDanglingError(f) /\ f.subject = t
                                            /\ f.object = t) = 0

\* A self-dependent task comes with the single circular-dependency error.
SelfDependencyIsCircular ==
    \A call \in StructureCalls :
        SelfDependent(TasksOf(call.arg)) # {}
        => /\ CountCircular(call) = 1
           /\ Count(View(call).errors, IsDependencyError) >= 2

\* C21: a task that lists its own task_id among its dependencies gets one
\* 'cannot depend on itself' error per occurrence and no 'non-existent task'
\* error for it, and the result also holds the single circular-dependency
\* error, hence at least two 'dependency' errors.
SelfDependencyTwoErrors ==
    /\ SelfReferencesReported
    /\ SelfDependencyIsCircular

----------------------------------------------------------------------------
(* The order of the findings *)

\* The position, in the fixed order of the sub-checks, of the sub-check a
\* finding comes from, read off the finding itself (0: none of the eight).
SubCheckOf(f) ==
    IF f.message \in {"Required field is missing or null",
                      "Schedule is None - DAG will not run automatically"}
    THEN 1
    ELSE IF f.field = "dag_id" THEN 2
    ELSE IF f.field = "schedule" THEN 3
    ELSE IF f.field = "start_date" THEN 4
    ELSE IF f.field \in {"tasks", "tasks[i].task_id", "tasks[i].operator_type",
                         "tasks[i].params", "task_id"} THEN 5
    ELSE IF f.field \in {"connections[i].conn_id", "connections[i].conn_type",
                         "conn_id"} THEN 6
    ELSE IF f.field \in {"variables[i].key", "variable_key"} THEN 7
    ELSE IF f.type = "dependency" THEN 8
    ELSE 0

\* The items a finding without an index is about, and the key that names them.
ItemListOf(spec, f) ==
    IF f.field = "conn_id" THEN ItemsOf(spec, "connections")
    ELSE IF f.field = "variable_key" THEN ItemsOf(spec, "variables")
    ELSE TasksOf(spec)

ItemKeyOf(f) ==
    IF f.field = "conn_id" THEN "conn_id"
    ELSE IF f.field = "variable_key" THEN "key"
    ELSE "task_id"

Named(items, key, t) ==
    {n \in 1..Len(items) : items[n][key].k = "str" /\ items[n][key].v = t}

\* Findings of one origin: same kind, same field, about the same identifier.
SameOrigin(f, g) ==
    /\ f.type = g.type /\ f.field = g.field /\ f.subject = g.subject
    /\ IsCircularError(f) = IsCircularError(g)

\* How many findings of the origin of findings[k] stand at or before k.
Ordinal(findings, k) ==
    Cardinality({i \in 1..k : SameOrigin(findings[i], findings[k])})

\* The m-th item named t is the one a 'duplicate' finding number m - 1 about
\* t was caused by; -1 when there is none.
NthNamed(items, key, t, m) ==
    LET found == {n \in Named(items, key, t) :
                     Cardinality({i \in Named(items, key, t) : i <= n}) = m}
    IN  IF found = {} THEN -1 ELSE CHOOSE n \in found : TRUE

\* The 'dependency' errors the dependency list of task n gives rise to, other
\* than the circular one.
DependencyErrorsOf(tasks, n) ==
    LET deps == Dependencies(tasks[n])
    IN  Cardinality({j \in 1..Len(deps) : deps[j] \notin TaskIdSet(tasks)})
        + Cardinality({j \in 1..Len(deps) : deps[j] = tasks[n].task_id.v})

RECURSIVE DependencyErrorsUpTo(_, _, _)
DependencyErrorsUpTo(tasks, t, n) ==
    IF n = 0
    THEN 0
    ELSE DependencyErrorsUpTo(tasks, t, n - 1)
         + (IF n \in Named(tasks, "task_id", t) THEN DependencyErrorsOf(tasks, n) ELSE 0)

\* The task the m-th 'dependency' error about task id t was caused by.
DependencyCause(tasks, t, m) ==
    LET found == {n \in Named(tasks, "task_id", t) :
                     /\ DependencyErrorsUpTo(tasks, t, n) >= m
                     /\ DependencyErrorsUpTo(tasks, t, n - 1) < m}
    IN  IF found = {} THEN -1 ELSE CHOOSE n \in found : TRUE

\* The position in its list of the task, connection or variable that caused
\* findings[k] (0 for a finding about the list as a whole, one past the end
\* for the circular-dependency error, -1 when no item accounts for it).
CauseOf(spec, findings, k) ==
    LET f == findings[k]
    IN  IF f.index # NoIndex THEN f.index + 1
        ELSE IF IsCircularError(f) THEN Len(TasksOf(spec)) + 1
        ELSE IF f.type = "dependency"
        THEN DependencyCause(TasksOf(spec), f.subject, Ordinal(findings, k))
        ELSE IF f.type = "duplicate"
        THEN NthNamed(ItemListOf(spec, f), ItemKeyOf(f), f.subject,
                      Ordinal(findings, k) + 1)
        ELSE 0

\* Neighbours in the list are in order; as the order is transitive, so are
\* any two findings.
InCheckThenDiscoveryOrder(spec, findings) ==
    /\ \A k \in 1..Len(findings) :
           (SubCheckOf(findings[k]) >= 5 /\ findings[k].index = NoIndex)
           => CauseOf(spec, findings, k) >= 0
    /\ \A i \in 1..(Len(findings) - 1) :
           /\ SubCheckOf(findings[i]) <= SubCheckOf(findings[i + 1])
           /\ (/\ SubCheckOf(findings[i]) = SubCheckOf(findings[i + 1])
               /\ SubCheckOf(findings[i]) >= 5)
              => CauseOf(spec, findings, i) <= CauseOf(spec, findings, i + 1)

\* C22: the errors and the warnings validate_structure returns are each in
\* the order of the sub-checks (required fields, id format, schedule, start
\* date, tasks, connections, variables, dependencies, the circular error
\* last) and, within a list sub-check, in the order of the items that caused
\* them.
FindingsInCheckOrder ==
    \A r \in {[spec |-> call.arg, result |-> View(call)] : call \in StructureCalls} :
        /\ InCheckThenDiscoveryOrder(r.spec, r.result.errors)
        /\ InCheckThenDiscoveryOrder(r.spec, r.result.warnings)

\* C22 witness: a result whose errors come from six sub-checks, with a
\* duplicate and two dependency errors about the same task id among them.
ErrorsFromSixSubChecks ==
    \E call \in StructureCalls :
        LET errors == View(call).errors
        IN  /\ {SubCheckOf(errors[k]) : k \in 1..Len(errors)} = {1, 4, 5, 6, 7, 8}
            /\ \E k \in 1..Len(errors) :
                   errors[k].type = "dependency" /\ Ordinal(errors, k) = 2
            /\ Count(errors, IsDuplicateTaskError) >= 1
            /\ Count(errors, IsCircularError) = 1
            /\ Len(View(call).warnings) >= 3

----------------------------------------------------------------------------
(* No fail-fast *)

\* What sub-check number k appends when it starts from empty accumulators.
SubCheckAlone(k, spec) ==
    LET none == Acc(<<>>, <<>>)
    IN  CASE k = 1 -> _validate_required_fields(none, spec)
          [] k = 2 -> _validate_dag_id(none, Get(spec.dag_id))
          [] k = 3 -> _validate_schedule(none, GetName(spec.schedule))
          [] k = 4 -> _validate_start_date(none, GetName(spec.start_date))
          [] k = 5 -> _validate_tasks(none, GetOrEmptyList(spec.tasks))
          [] k = 6 -> _validate_connections(none, GetOrEmptyList(spec.connections))
          [] k = 7 -> _validate_variables(none, GetOrEmptyList(spec.variables))
          [] k = 8 -> _validate_dependencies(none, GetOrEmptyList(spec.tasks))

FindingsOfSubCheck(findings, k) ==
    SelectSeq(findings, LAMBDA f : SubCheckOf(f) = k)

\* Each sub-check contributes what it finds on its own input, whatever the
\* sub-checks before it found.
EverySubCheckRuns ==
    \A call \in StructureCalls :
        ~SpecIsFalsy(call.arg)
        => \A k \in 1..8 :
               /\ FindingsOfSubCheck(View(call).errors, k)
                  = SubCheckAlone(k, call.arg).errors
               /\ FindingsOfSubCheck(View(call).warnings, k)
                  = SubCheckAlone(k, call.arg).warnings

\* With an empty task list the task check leaves its one error and the
\* dependency check nothing, while connections and variables are checked.
EmptyTaskListSkipsTaskChecksOnly ==
    \A call \in StructureCalls :
        (~SpecIsFalsy(call.arg) /\ TasksOf(call.arg) = <<>>)
        => /\ FindingsOfSubCheck(View(call).errors, 5)
              = <<Field("structure", "tasks", NoIndex,
                        "DAG must contain at least one task", <<>>, <<>>)>>
           /\ FindingsOfSubCheck(View(call).warnings, 5) = <<>>
           /\ FindingsOfSubCheck(View(call).errors, 8) = <<>>
           /\ \A k \in {6, 7} :
                  /\ FindingsOfSubCheck(View(call).errors, k)
                     = SubCheckAlone(k, call.arg).errors
                  /\ FindingsOfSubCheck(View(call).warnings, k)
                     = SubCheckAlone(k, call.arg).warnings

IsTaskError(f) ==
    \/ IsDuplicateTaskError(f)
    \/ f.type = "format" /\ f.field = "tasks[i].task_id"
    \/ f.type = "field" /\ f.field = "tasks[i].operator_type"

\* Tasks that got format, duplicate or operator errors still get their
\* dangling references and their cycles reported.
DependenciesReportedAfterTaskErrors ==
    \A call \in StructureCalls :
        LET tasks == TasksOf(call.arg)
            errors == View(call).errors
        IN  Count(errors, IsTaskError) > 0
            => /\ Count(errors, IsDanglingError)
                  = Cardinality(DanglingEntries(tasks, HasId))
               /\ HasDirectedCycle(DeclaredEdges(tasks))
                  => Count(errors, IsCircularError) = 1

\* C23: validate_structure on a non-empty specification is not fail-fast:
\* every sub-check runs whatever the earlier ones found, the dependency check
\* reports dangling references and cycles for tasks that already got errors,
\* and an empty task list skips the per-task and dependency checks only.
NotFailFast ==
    /\ EverySubCheckRuns
    /\ EmptyTaskListSkipsTaskChecksOnly
    /\ DependenciesReportedAfterTaskErrors

----------------------------------------------------------------------------
(* Results are snapshots *)

\* C24: a result a call has returned is not changed by the calls made after
\* it on the same instance: its errors, its warnings and its valid stay as
\* they were.
ReturnedResultsUnchanged ==
    [][\A i \in 1..Len(returned) : View(returned[i])' = View(returned[i])]_vars

\* C24 witness: a call returned errors, and the next call on the instance
\* returned none, the errors of the first result still being there.
EarlierResultKeepsItsErrors ==
    /\ Len(returned) >= 2
    /\ View(returned[1]).errors # <<>>
    /\ View(returned[2]).errors = <<>>
    /\ returned[1].result.errors # returned[2].result.errors

\* In the endpoint, which calls validate_syntax and then validate_structure
\* on one validator, the syntax result is afterwards what validate_syntax
\* returns on its own, and the response starts with its findings.
EndpointKeepsSyntaxResult ==
    (Len(returned) = 2 /\ response # NoResponse)
    => LET syntax == FreshResult("validate_syntax", returned[1].arg)
       IN  /\ returned[1].op = "validate_syntax"
           /\ View(returned[1]) = syntax
           /\ SubSeq(response.errors, 1, Len(syntax.errors)) = syntax.errors
           /\ SubSeq(response.warnings, 1, Len(syntax.warnings)) = syntax.warnings
           /\ Len(response.errors)
              = Len(syntax.errors) + Len(View(returned[2]).errors)

----------------------------------------------------------------------------
(* The cycle search terminates *)

SearchDone == search.result \in {"True", "False"}

\* No node was expanded twice, and visited holds the expanded nodes.
ExpandedAtMostOnce ==
    /\ \A i, j \in 1..Len(search.expanded) :
           i # j => search.expanded[i] # search.expanded[j]
    /\ search.visited = {search.expanded[i] : i \in 1..Len(search.expanded)}

\* A step that expands a node expands one that was not visited.
ExpandsUnvisitedOnly ==
    Len(search.expanded') > Len(search.expanded)
    => search.expanded'[Len(search.expanded')] \notin search.visited

\* While the search runs, rec_stack is the current path; it is empty
\* whenever the loop over graph has control.
StackIsCurrentPath ==
    Running
    => search.rec_stack = {search.frames[i].node : i \in 1..Len(search.frames)}

\* A neighbour on the current path ends the search at once: nothing more is
\* expanded, and True is on its way to the caller.
StopsAtBackEdge ==
    /\ (InHasCycle /\ HasNeighbor(Top) /\ NeighborAt(Top) \in search.rec_stack)
       => search.result' = "returning True"
    /\ search.result = "returning True"
       => /\ search.expanded' = search.expanded
          /\ search.visited' = search.visited
          /\ search.result' \in {"returning True", "True"}

\* C25: the cycle search terminates on every task list; no node is expanded
\* twice, a visited node is never expanded, rec_stack is empty at the start
\* of each top-level traversal, and the first back edge ends the search.
SearchTerminates ==
    /\ []ExpandedAtMostOnce
    /\ []StackIsCurrentPath
    /\ [][ExpandsUnvisitedOnly /\ StopsAtBackEdge]_vars
    /\ <>SearchDone

\* C25 witness: the search returned True from its second top-level
\* traversal or a later one, with three nodes or more expanded.
CycleFoundInLaterTraversal ==
    /\ search.result = "True"
    /\ search.root > 1
    /\ Len(search.expanded) >= 3

\* The step-by-step search returns what the operator has_cycle computes.
SearchAgreesWithOperator ==
    SearchDone
    => ((search.result = "True") <=> _has_circular_dependencies(TasksOf(dag_spec)))

----------------------------------------------------------------------------
(* The parameter mapping of a task *)

IsParamsWarning(f) == f.type = "params"

IsOperatorTypeError(f) == f.type = "field" /\ f.field = "tasks[i].operator_type"

\* The parameter mapping is there and not empty, under either field name.
HasParameters(task) == task.params = "nonempty" \/ task.parameters = "nonempty"

AtIndex(findings, P(_), n) ==
    Cardinality({k \in 1..Len(findings) : P(findings[k]) /\ findings[k].index = n - 1})

\* C26: a task (with a task_id) whose operator_type is present gets one
\* 'params' warning when its parameter mapping, 'parameters' or 'params', is
\* absent or empty and none otherwise; a task without operator_type gets an
\* error and no 'params' warning.
ParamsWarningIffNoParameters ==
    \A call \in StructureCalls :
        LET tasks == TasksOf(call.arg)
            res == View(call)
        IN  \A n \in 1..Len(tasks) :
                HasId(tasks[n])
                => IF TruthyName(GetName(tasks[n].operator_type))
                   THEN AtIndex(res.warnings, IsParamsWarning, n)
                        = (IF HasParameters(tasks[n]) THEN 0 ELSE 1)
                   ELSE /\ AtIndex(res.warnings, IsParamsWarning, n) = 0
                        /\ AtIndex(res.errors, IsOperatorTypeError, n) = 1

\* The same with 'params' as the only name of the parameter mapping.
ParamsWarningIffNoParams ==
    \A call \in StructureCalls :
        LET tasks == TasksOf(call.arg)
            res == View(call)
        IN  \A n \in 1..Len(tasks) :
                HasId(tasks[n])
                => IF TruthyName(GetName(tasks[n].operator_type))
                   THEN AtIndex(res.warnings, IsParamsWarning, n)
                        = (IF tasks[n].params = "nonempty" THEN 0 ELSE 1)
                   ELSE /\ AtIndex(res.warnings, IsParamsWarning, n) = 0
                        /\ AtIndex(res.errors, IsOperatorTypeError, n) = 1

====
